---------------------------- MODULE Spec2Model ----------------------------
(***************************************************************************)
(* A model of the Thorlabs CCS spectrometer driver                         *)
(* (src/src/lab_instruments/tlccs.py): the EEPROM reader with its CRC-16,  *)
(* the integration time codec, the calibration builder, the scan engine    *)
(* the firmware upload and the discovery of devices on the bus.            *)
(*                                                                         *)
(* Numbers: integration times are integer microseconds; wavelengths and    *)
(* polynomial coefficients are integers; amplitude correction factors are  *)
(* integer thousandths (1 is the factor 0.001); a quotient the code        *)
(* computes in floating point is kept as an exact fraction <<num, den>>    *)
(* with den > 0.                                                           *)
(***************************************************************************)
EXTENDS Integers, Sequences, FiniteSets, TLC

VARIABLES
    eeprom,     \* the device's EEPROM: a byte image and the calibration regions
    data,       \* TLCCS_DATA, the driver's state of one device
    transfers,  \* the USB transfers issued so far, in order
    op,         \* the operation that ran last
    args,       \* its arguments
    err,        \* the exception it raised, "none" when it returned
    ret,        \* what it returned
    fw,         \* upload_firmware: its records, its position and what it printed
    tlccs,      \* the TLCCS instance: "none" before __init__ returns, then "open"
    usb         \* the host side of the bus: the devices attached, the call in progress

vars == <<eeprom, data, transfers, op, args, err, ret, fw, tlccs, usb>>

---------------------------------------------------------------------------
(* Program constants.                                                      *)

ENDPOINT_0_TRANSFERSIZE == 64
CONTROL_TRANSFER_IN_ZERO == 192
TLCCS_RCMD_READ_EEPROM == 33
EE_SW_VERSION == 32
UINT16_SZ == 2
CRC_INIT == 65535
CRC_POLY == 40961
EMPTY_CHECKSUM == 65535

TLCCS_MIN_INT_TIME == 10
TLCCS_MAX_INT_TIME == 60000000
TLCCS_DEF_INT_TIME == 10000
TLCCS_NUM_RAW_PIXELS == 3694
SH_PERCENT_X10 == 165
INTEG_FULL == 4095
MAX_PRESC == 20
TLCCS_WCMD_INTEGRATION_TIME == 35
CONTROL_TRANSFER_OUT == 64
TLCCS_RCMD_READ_RAM == 160
TLCCS_RCMD_GET_STATUS == 48
TLCCS_STATUS_SCAN_TRANSFER == 16
BULK_IN_ENDPOINT == 134
TLCCS_WCMD_MODUS == 36
MODUS_INTERN_SINGLE_SHOT == 0
MODUS_INTERN_CONTINUOUS == 1
TLCCS_WCMD_RESET == 38
TLCCS_NUM_INTEG_CTRL_BYTES == 6

TLCCS_CAL_DATA_SET_FACTORY == 0
TLCCS_CAL_DATA_SET_USER == 1
TLCCS_NUM_POLY_POINTS == 4
TLCCS_MAX_NUM_USR_ADJ == 10
UINT32_SZ == 4
EE_LENGTH_USER_CAL_POINTS_DATA == 120
EMPTY_COUNT == 65535
\* the factor 1.0 in thousandths
FACTOR_ONE == 1000

TLCCS_AMP_CORR_FACT_MIN == 1
TLCCS_AMP_CORR_FACT_MAX == 1000000
NO_DARK_PIXELS == 12
DARK_PIXELS_OFFSET == 16
SCAN_PIXELS_OFFSET == 32
MAX_ADC_VALUE == 65535
DARK_LEVEL_THRESHOLD_X100 == 99

(* Bounds of the model.                                                    *)

\* the longest payload a modelled read_EEPROM call asks for
MaxReadLen == 2
\* the pixels of the sensor, 3648 in the source
TLCCS_NUM_PIXELS == 3
\* the transfers kept in the log
MaxTransfers == 3

---------------------------------------------------------------------------
(* Bit operations on naturals.                                             *)

RECURSIVE BitXor(_, _)
BitXor(a, b) ==
    IF a = 0 THEN b
    ELSE IF b = 0 THEN a
    ELSE (((a % 2) + (b % 2)) % 2) + (2 * BitXor(a \div 2, b \div 2))

RECURSIVE BitOr(_, _)
BitOr(a, b) ==
    IF a = 0 THEN b
    ELSE IF b = 0 THEN a
    ELSE (IF (a % 2) + (b % 2) > 0 THEN 1 ELSE 0) + (2 * BitOr(a \div 2, b \div 2))

RECURSIVE BitAnd(_, _)
BitAnd(a, b) ==
    IF a = 0 \/ b = 0 THEN 0
    ELSE 2 * BitAnd(a \div 2, b \div 2) + (IF a % 2 = 1 /\ b % 2 = 1 THEN 1 ELSE 0)

RECURSIVE Pow2(_)
Pow2(n) == IF n = 0 THEN 1 ELSE 2 * Pow2(n - 1)

\* x >> n
Shr(x, n) == x \div Pow2(n)

Abs(x) == IF x < 0 THEN 0 - x ELSE x

RECURSIVE Gcd(_, _)
Gcd(a, b) == IF b = 0 THEN a ELSE Gcd(b, a % b)

\* the fraction n / d, d > 0, in lowest terms
Frac(n, d) ==
    LET g == Gcd(Abs(n), d) IN <<n \div g, d \div g>>

\* the fraction f times a / b, a >= 0 and b > 0, cancelling before multiplying
FracMul(f, a, b) ==
    LET g1 == Gcd(Abs(f[1]), b)
        g2 == Gcd(a, f[2])
    IN  Frac((f[1] \div g1) * (a \div g2), (f[2] \div g2) * (b \div g1))

FracLeq(f, g) == f[1] * g[2] <= g[1] * f[2]

\* the log has room for the transfers xs
Room(xs) == Len(transfers) + Len(xs) <= MaxTransfers

---------------------------------------------------------------------------
(* EEPROM reader.                                                          *)

\* one round of crc16_update's loop over the 8 bits
crc16_shift(crc) ==
    IF crc % 2 = 1 THEN BitXor(crc \div 2, CRC_POLY) ELSE crc \div 2

RECURSIVE crc16_rounds(_, _)
crc16_rounds(crc, n) ==
    IF n = 0 THEN crc ELSE crc16_rounds(crc16_shift(crc), n - 1)

crc16_update(crc, d) == crc16_rounds(BitXor(crc, d), 8) % 65536

RECURSIVE crc16_from(_, _, _, _)
crc16_from(crc, bytes, cnt, length) ==
    IF length = 0 THEN crc
    ELSE crc16_from(crc16_update(crc, bytes[cnt + 1]), bytes, cnt + 1, length - 1)

crc16_block(bytes, length) == crc16_from(CRC_INIT, bytes, 0, length)

\* the device's answer to one READ_EEPROM control transfer
ctrl_read_eeprom(img, chunk_address, chunk_length) ==
    [i \in 1..chunk_length |-> img[chunk_address + i - 1]]

ReadTransfer(chunk_address, idx, chunk_length) ==
    [bmRequestType |-> CONTROL_TRANSFER_IN_ZERO, bRequest |-> TLCCS_RCMD_READ_EEPROM,
     wValue |-> chunk_address, wIndex |-> idx, data_or_wLength |-> chunk_length]

\* read_EEPROM_wo_CRC: [data, xfers], the bytes read and the transfers issued
RECURSIVE read_EEPROM_wo_CRC(_, _, _, _)
read_EEPROM_wo_CRC(img, address, idx, length) ==
    IF length > 0
    THEN LET chunk_length == IF length >= ENDPOINT_0_TRANSFERSIZE
                             THEN ENDPOINT_0_TRANSFERSIZE ELSE length
             chunk == ctrl_read_eeprom(img, address, chunk_length)
             rest  == read_EEPROM_wo_CRC(img, address + Len(chunk), idx,
                                         length - Len(chunk))
         IN  [data  |-> chunk \o rest.data,
              xfers |-> <<ReadTransfer(address, idx, chunk_length)>> \o rest.xfers]
    ELSE [data |-> <<>>, xfers |-> <<>>]

\* struct.unpack('<H', b)
UnpackLE16(b) == b[1] + 256 * b[2]

\* the decision of read_EEPROM on the computed and the stored checksum
ChecksumErrorMutant(checksum, eeprom_checksum) ==
    IF checksum # eeprom_checksum THEN "EEPROMChecksumError" ELSE "none"

ChecksumError(checksum, eeprom_checksum) ==
    IF checksum # eeprom_checksum
    THEN IF eeprom_checksum = EMPTY_CHECKSUM THEN "none" ELSE "EEPROMChecksumError"
    ELSE "none"

\* read_EEPROM: [data, err, xfers]
read_EEPROM(img, address, idx, length) ==
    LET rd == read_EEPROM_wo_CRC(img, address, idx, length)
    IN  IF address >= EE_SW_VERSION
        THEN LET checksum        == crc16_block(rd.data, length)
                 checksum_bytes  == read_EEPROM_wo_CRC(img, address + length, idx, UINT16_SZ)
                 eeprom_checksum == UnpackLE16(checksum_bytes.data)
                 e               == ChecksumError(checksum, eeprom_checksum)
             IN  [data  |-> IF e = "none" THEN rd.data ELSE <<>>,
                  err   |-> e,
                  xfers |-> rd.xfers \o checksum_bytes.xfers]
        ELSE [data |-> rd.data, err |-> "none", xfers |-> rd.xfers]


---------------------------------------------------------------------------
(* Integration time codec.  A time is an integer number of microseconds:   *)
(* the float time_sec of the code is that number over 1e6.                 *)

\* the times the model feeds the codec
TimeSamples ==
    {0, 9, 10, 11, 54, 55, 56, 100, 248, 249, 251, 977, 978, 1000, 3515, 3516,
     3517, 3693, 3694, 3695, 7031, 7035, 10000, 14063, 100000, 1000000,
     59999999, 60000000, 60000001}

\* the times the model hands set_integration_time
SetTimeSamples == {9, 10, TLCCS_DEF_INT_TIME, 60000000, 60000001}

\* the samples k for which int((k / 1e6) * 1_000_000) is k - 1 in IEEE double
\* arithmetic: the product falls just short of k and int() truncates
TruncatedSamples == {249, 251, 978}

\* TLCCS_MIN_INT_TIME <= time_sec <= TLCCS_MAX_INT_TIME
InRangeMutant(t) == TRUE

InRange(t) == TLCCS_MIN_INT_TIME <= t /\ t <= TLCCS_MAX_INT_TIME

\* int(time_sec * 1_000_000)
ToTicks(t) == IF t \in TruncatedSamples THEN t - 1 ELSE t

\* the whole part of integ_max = 4095 / (1 + 0.01 * SH_PERCENT): an integer
\* exceeds integ_max exactly when it exceeds its whole part
IntegMaxFloor == (INTEG_FULL * 1000) \div (1000 + SH_PERCENT_X10)

\* while (integ > integ_max) & (presc < 20)
RECURSIVE Prescale(_, _)
Prescale(integ, presc) ==
    IF integ > IntegMaxFloor /\ presc < MAX_PRESC
    THEN Prescale(Shr(integ, 1), presc + 1)
    ELSE [integ |-> integ, presc |-> presc]

\* int((integ * SH_PERCENT) / 100 + diff)
FillOf(integ, presc) ==
    LET diff == IF integ < Shr(TLCCS_NUM_RAW_PIXELS, presc)
                THEN Shr(TLCCS_NUM_RAW_PIXELS, presc) - integ ELSE 0
    IN  ((integ * SH_PERCENT_X10) \div 1000) + diff

\* the prescaler, fill and integration values encode_integration_time packs
IntegFieldsMutant(t) ==
    LET p     == Prescale(ToTicks(t), 0)
        fill  == FillOf(p.integ, p.presc)
        integ == p.integ - 8 + fill
    IN  IF integ > TLCCS_NUM_RAW_PIXELS
        THEN [presc |-> p.presc + 1, fill |-> Shr(fill, 1), integ |-> Shr(integ, 1)]
        ELSE [presc |-> p.presc, fill |-> fill, integ |-> integ]

IntegFields(t) ==
    LET p     == Prescale(ToTicks(t), 0)
        fill  == FillOf(p.integ, p.presc)
        integ == p.integ - 8 + fill
    IN  IF integ > TLCCS_NUM_RAW_PIXELS
        THEN [presc |-> p.presc + 1, fill |-> Shr(fill, 1), integ |-> Shr(integ, 1) - 4]
        ELSE [presc |-> p.presc, fill |-> fill, integ |-> integ]

\* (v & 0xFF00) >> 8 and v & 0x00FF of a value below 2^16
HiByte(v) == (v \div 256) % 256
LoByte(v) == v % 256

\* six bytes with the tags in the low nibble of the first byte of each field
PackFieldsMutant(f) ==
    <<BitOr(HiByte(f.presc), 0), LoByte(f.presc),
      BitOr(HiByte(f.fill), 1),  LoByte(f.fill),
      BitOr(HiByte(f.integ), 2), LoByte(f.integ)>>

\* the six bytes, the tags 0x00, 0x10, 0x20 or-ed into the first byte of each field
PackFields(f) ==
    <<BitOr(HiByte(f.presc), 0),  LoByte(f.presc),
      BitOr(HiByte(f.fill), 16),  LoByte(f.fill),
      BitOr(HiByte(f.integ), 32), LoByte(f.integ)>>

\* encode_integration_time: [data, err]
encode_integration_time(t) ==
    IF ~InRange(t)
    THEN [data |-> <<>>, err |-> "ValueError"]
    ELSE [data |-> PackFields(IntegFields(t)), err |-> "none"]

\* one field of struct.unpack('>hhh', data): big-endian, signed
UnpackBE16s(hi, lo) ==
    LET v == 256 * hi + lo IN IF v >= 32768 THEN v - 65536 ELSE v

\* val & 0x0FFF
Mask12(v) == v % 4096

\* decode_integration_time, in microseconds
decode_integration_time(d) ==
    LET presc == Mask12(UnpackBE16s(d[1], d[2]))
        fill  == Mask12(UnpackBE16s(d[3], d[4]))
        integ == Mask12(UnpackBE16s(d[5], d[6]))
    IN  (integ - fill + 8) * Pow2(presc)

IntegrationTimeTransfer(time_data) ==
    [bmRequestType |-> CONTROL_TRANSFER_OUT, bRequest |-> TLCCS_WCMD_INTEGRATION_TIME,
     wValue |-> 0, wIndex |-> 0, data_or_wLength |-> time_data]

\* set_integration_time: [err, xfers]
set_integration_time(t) ==
    LET time_data == encode_integration_time(t)
    IN  IF time_data.err # "none"
        THEN [err |-> time_data.err, xfers |-> <<>>]
        ELSE [err |-> "none", xfers |-> <<IntegrationTimeTransfer(time_data.data)>>]

---------------------------------------------------------------------------
(* The driver's data and the calibration regions of the EEPROM.  A region  *)
(* is [val, crc, sum]: the values its payload bytes decode to, the CRC-16  *)
(* of those bytes, and the checksum word stored behind them.               *)

Pixels == 0..(TLCCS_NUM_PIXELS - 1)
Zeros(n) == [i \in 1..n |-> 0]

TLCCS_WL_CAL ==
    [poly |-> Zeros(TLCCS_NUM_POLY_POINTS), min |-> 0, max |-> 0,
     wl |-> [i \in Pixels |-> 0], valid |-> 0]

TLCCS_USER_CAL_PTS ==
    [user_cal_node_cnt |-> 0,
     user_cal_node_pixel |-> Zeros(TLCCS_MAX_NUM_USR_ADJ),
     user_cal_node_wl |-> Zeros(TLCCS_MAX_NUM_USR_ADJ)]

\* amplitude_cor defaults to 1.0 for every pixel
TLCCS_ACOR == [amplitude_cor |-> [i \in Pixels |-> FACTOR_ONE], checksum |-> 0]

TLCCS_DATA ==
    [int_time |-> TLCCS_DEF_INT_TIME,
     even_offset_max |-> 1,
     odd_offset_max |-> 1,
     factory_wavelength_cal |-> TLCCS_WL_CAL,
     user_wavelength_cal |-> TLCCS_WL_CAL,
     user_points |-> TLCCS_USER_CAL_PTS,
     factory_amplitude_cal |-> TLCCS_ACOR,
     user_amplitude_cal |-> TLCCS_ACOR,
     cal_mode |-> 0]

\* the CRC-16 the model gives the bytes of every calibration region
REGION_CRC == 4660
\* stored checksum words: the right one, the never-written one, a wrong one
GoodSum == {REGION_CRC}
AnySum == {REGION_CRC, EMPTY_CHECKSUM, 0}

Region(val, sum) == [val |-> val, crc |-> REGION_CRC, sum |-> sum]

\* read_EEPROM of a calibration region, all of which lie above EE_SW_VERSION
read_region(region) ==
    LET e == ChecksumError(region.crc, region.sum)
    IN  [val |-> region.val, err |-> e]

---------------------------------------------------------------------------
(* Calibration builder.                                                    *)

\* read_factory_poly: [poly, err]
read_factory_poly(rom, poly) ==
    LET r == read_region(rom.fact_cal_coef_data)
    IN  IF r.err # "none" THEN [poly |-> poly, err |-> r.err]
        ELSE [poly |-> r.val, err |-> "none"]

\* the first n entries of a replaced by those of b
Overwrite(a, b, n) == [i \in 1..Len(a) |-> IF i <= n THEN b[i] ELSE a[i]]

\* read_user_points: [user_points, err, reads], reads the EEPROM regions it read
read_user_points(rom, user_points) ==
    LET point_count == read_region(rom.user_cal_points_cnt)
        cnt         == point_count.val
        point_data  == read_region(rom.user_cal_points_data)
        counted     == [user_points EXCEPT !.user_cal_node_cnt = cnt]
        BothRead    == <<"user_cal_points_cnt", "user_cal_points_data">>
    IN  IF point_count.err # "none"
        THEN [user_points |-> user_points, err |-> point_count.err,
              reads |-> <<"user_cal_points_cnt">>]
        ELSE IF cnt = EMPTY_COUNT
        THEN [user_points |-> user_points, err |-> "NoUserDataPoint",
              reads |-> <<"user_cal_points_cnt">>]
        ELSE IF point_data.err # "none"
        THEN [user_points |-> user_points, err |-> point_data.err, reads |-> BothRead]
        \* struct.unpack of cnt uint32 from fewer than 4 * cnt bytes
        ELSE IF cnt * UINT32_SZ > EE_LENGTH_USER_CAL_POINTS_DATA
        THEN [user_points |-> counted, err |-> "struct.error", reads |-> BothRead]
        \* user_cal_node_pixel[i] = px for i = TLCCS_MAX_NUM_USR_ADJ
        ELSE IF cnt > TLCCS_MAX_NUM_USR_ADJ
        THEN [user_points |->
                 [counted EXCEPT !.user_cal_node_pixel = point_data.val.pixel],
              err |-> "IndexError", reads |-> BothRead]
        ELSE [user_points |->
                 [counted EXCEPT
                     !.user_cal_node_pixel =
                         Overwrite(user_points.user_cal_node_pixel, point_data.val.pixel, cnt),
                     !.user_cal_node_wl =
                         Overwrite(user_points.user_cal_node_wl, point_data.val.wl, cnt)],
              err |-> "none", reads |-> BothRead]

\* np.polyfit(x, y, deg = 3)[::-1] for the four nodes x = 0, 1, 2, 3: the cubic
\* through them, by forward differences
PolyFit4(y) ==
    LET d1 == y[2] - y[1]
        d2 == y[3] - (2 * y[2]) + y[1]
        d3 == y[4] - (3 * y[3]) + (3 * y[2]) - y[1]
    IN  <<y[1], ((6 * d1) - (3 * d2) + (2 * d3)) \div 6, (d2 - d3) \div 2, d3 \div 6>>

\* nodes_to_poly: [cal, err]
nodes_to_poly(user_points, user_wavelength_cal) ==
    IF user_points.user_cal_node_cnt = 0
    THEN [cal |-> user_wavelength_cal, err |-> "TypeError"]
    ELSE [cal |-> [user_wavelength_cal EXCEPT
                      !.poly = PolyFit4(SubSeq(user_points.user_cal_node_wl, 1,
                                               user_points.user_cal_node_cnt))],
          err |-> "none"]

\* cal.poly[0] + i * (cal.poly[1] + i * (cal.poly[2] + i * cal.poly[3]))
Horner(poly, i) == poly[1] + (i * (poly[2] + (i * (poly[3] + (i * poly[4])))))

Expand(poly) == [i \in Pixels |-> Horner(poly, i)]

\* the test the loop over pixels 1..N-1 makes at pixel i
BreaksDirectionMutant(direction_flag, wl, i) ==
    IF direction_flag = 1 THEN FALSE ELSE wl[i] <= wl[i - 1]

BreaksDirection(direction_flag, wl, i) ==
    IF direction_flag = 1 THEN wl[i] <= wl[i - 1] ELSE wl[i] <= wl[i - 1]

\* the min and max poly_to_wavelength_array sets once the curve passed
ExtremesMutant(direction_flag, poly, wl) ==
    IF direction_flag = 1
    THEN [min |-> poly[1], max |-> wl[1]]
    ELSE [min |-> wl[TLCCS_NUM_PIXELS - 1], max |-> poly[1]]

Extremes(direction_flag, poly, wl) ==
    IF direction_flag = 1
    THEN [min |-> poly[1], max |-> wl[TLCCS_NUM_PIXELS - 1]]
    ELSE [min |-> wl[TLCCS_NUM_PIXELS - 1], max |-> poly[1]]

\* poly_to_wavelength_array: [cal, err]
poly_to_wavelength_array(cal) ==
    LET wl             == Expand(cal.poly)
        filled         == [cal EXCEPT !.wl = wl]
        direction_flag == IF wl[0] < wl[1] THEN 1 ELSE IF wl[0] > wl[1] THEN -1 ELSE 0
    IN  IF direction_flag = 0
        THEN [cal |-> filled, err |-> "InvalidUserData"]
        ELSE IF \E i \in 1..(TLCCS_NUM_PIXELS - 1) : BreaksDirection(direction_flag, wl, i)
        THEN [cal |-> filled, err |-> "InvalidUserData"]
        ELSE [cal |-> [filled EXCEPT !.min = Extremes(direction_flag, cal.poly, wl).min,
                                     !.max = Extremes(direction_flag, cal.poly, wl).max],
              err |-> "none"]

\* the user half of get_wavelength_parameters, inside its try: [data, err]
user_wavelength_parameters(rom, d) ==
    LET pts == read_user_points(rom, d.user_points)
        d1  == [d EXCEPT !.user_points = pts.user_points]
        fit == nodes_to_poly(d1.user_points, d1.user_wavelength_cal)
        d2  == [d1 EXCEPT !.user_wavelength_cal = fit.cal]
        exp == poly_to_wavelength_array(d2.user_wavelength_cal)
        d3  == [d2 EXCEPT !.user_wavelength_cal = exp.cal]
    IN  IF pts.err = "NoUserDataPoint" THEN [data |-> d1, err |-> "none"]
        ELSE IF pts.err # "none" THEN [data |-> d1, err |-> pts.err]
        ELSE IF fit.err # "none" THEN [data |-> d2, err |-> fit.err]
        ELSE IF exp.err # "none" THEN [data |-> d3, err |-> exp.err]
        ELSE [data |-> [d3 EXCEPT !.user_wavelength_cal.valid = 1], err |-> "none"]

\* get_wavelength_parameters: [data, err, at], at the place an error came from
get_wavelength_parameters(rom, d) ==
    LET d1   == [d EXCEPT !.factory_wavelength_cal.valid = 0]
        poly == read_factory_poly(rom, d1.factory_wavelength_cal.poly)
        d2   == [d1 EXCEPT !.factory_wavelength_cal.poly = poly.poly]
        exp  == poly_to_wavelength_array(d2.factory_wavelength_cal)
        d3   == [d2 EXCEPT !.factory_wavelength_cal = exp.cal]
        d4   == [d3 EXCEPT !.user_wavelength_cal.valid = 0]
        usr  == user_wavelength_parameters(rom, d4)
    IN  IF poly.err # "none" THEN [data |-> d1, err |-> poly.err, at |-> "read_factory_poly"]
        ELSE IF exp.err # "none" THEN [data |-> d3, err |-> exp.err, at |-> "factory"]
        ELSE [data |-> usr.data, err |-> usr.err,
              at |-> IF usr.err = "none" THEN "none" ELSE "user"]

\* a test that lets every user request through
UserInvalidMutant(valid) == FALSE

\* not data.user_wavelength_cal.valid
UserInvalid(valid) == valid = 0

\* get_wavelength: [wl, err]
get_wavelength(d, factory_or_user) ==
    IF factory_or_user = TLCCS_CAL_DATA_SET_FACTORY
    THEN [wl |-> d.factory_wavelength_cal.wl, err |-> "none"]
    ELSE IF factory_or_user = TLCCS_CAL_DATA_SET_USER
    THEN IF UserInvalid(d.user_wavelength_cal.valid)
         THEN [wl |-> <<>>, err |-> "InvalidUserData"]
         ELSE [wl |-> d.user_wavelength_cal.wl, err |-> "none"]
    ELSE [wl |-> <<>>, err |-> "ValueError"]

\* the float32 the bytes FF FF FF FF unpack to, as a value no factor has
NaN == 0 - 2147483647

\* a < b on floats: false as soon as one side is NaN
FloatLt(a, b) == a # NaN /\ b # NaN /\ a < b

\* the clamp of one factor into [TLCCS_AMP_CORR_FACT_MIN, TLCCS_AMP_CORR_FACT_MAX]
ClampFactor(a) ==
    LET lo == IF FloatLt(a, TLCCS_AMP_CORR_FACT_MIN) THEN TLCCS_AMP_CORR_FACT_MIN ELSE a
    IN  IF FloatLt(TLCCS_AMP_CORR_FACT_MAX, lo) THEN TLCCS_AMP_CORR_FACT_MAX ELSE lo

\* get_amplitude_correction_array: [acor, err]
get_amplitude_correction_array(region, amplitude_cor_cal) ==
    LET r == read_region(region)
    IN  IF r.err # "none" THEN [acor |-> amplitude_cor_cal, err |-> r.err]
        ELSE [acor |-> [amplitude_cor_cal EXCEPT
                           !.amplitude_cor = [i \in Pixels |-> ClampFactor(r.val[i])]],
              err |-> "none"]

\* get_amplitude_correction: [data, err]
get_amplitude_correction(rom, d) ==
    LET f  == get_amplitude_correction_array(rom.acor_factory, d.factory_amplitude_cal)
        d1 == [d EXCEPT !.factory_amplitude_cal = f.acor]
        u  == get_amplitude_correction_array(rom.acor_user, d1.user_amplitude_cal)
        d2 == [d1 EXCEPT !.user_amplitude_cal = u.acor]
    IN  IF f.err # "none" THEN [data |-> d1, err |-> f.err]
        ELSE [data |-> d2, err |-> u.err]

\* a field that takes what the EEPROM holds whatever the checksum says
OffsetMaxMutant(region) == region.val

\* one field of get_dark_current_offset
OffsetMax(region) ==
    LET r == read_region(region)
    IN  IF r.err = "EEPROMChecksumError" THEN EMPTY_CHECKSUM ELSE r.val

\* get_dark_current_offset: the data, it raises nothing
get_dark_current_offset(rom, d) ==
    [d EXCEPT !.even_offset_max = OffsetMax(rom.even_offset_max),
              !.odd_offset_max  = OffsetMax(rom.odd_offset_max)]

\* initialize: [data, err, xfers]
initialize(rom, d) ==
    LET t  == set_integration_time(TLCCS_DEF_INT_TIME)
        w  == get_wavelength_parameters(rom, d)
        d1 == get_dark_current_offset(rom, w.data)
        a  == get_amplitude_correction(rom, d1)
    IN  IF t.err # "none" THEN [data |-> d, err |-> t.err, xfers |-> t.xfers]
        ELSE IF w.err # "none" THEN [data |-> w.data, err |-> w.err, xfers |-> t.xfers]
        ELSE [data |-> a.data, err |-> a.err, xfers |-> t.xfers]

---------------------------------------------------------------------------
(* The state of a fresh driver and of a device that is not being read.     *)

\* the bytes the modelled EEPROM cells hold: 0x00, 0x40, 0xFF
ByteSet == {0, 64, 255}
\* the first modelled cell, below the checksummed area
ImgFirst == EE_SW_VERSION - 2
ImgLast == EE_SW_VERSION + MaxReadLen + UINT16_SZ - 1
ImgAddrs == ImgFirst..ImgLast
ReadAddrs == {ImgFirst, EE_SW_VERSION}

NoImg == [a \in ImgAddrs |-> 0]

\* a device as shipped: a factory polynomial, no user points, factors of 1.0
NoEeprom ==
    [img |-> NoImg,
     fact_cal_coef_data |-> Region(<<400, 10, 0, 0>>, REGION_CRC),
     user_cal_points_cnt |-> Region(EMPTY_COUNT, EMPTY_CHECKSUM),
     user_cal_points_data |->
         Region([pixel |-> Zeros(TLCCS_MAX_NUM_USR_ADJ), wl |-> Zeros(TLCCS_MAX_NUM_USR_ADJ)],
                EMPTY_CHECKSUM),
     even_offset_max |-> Region(0, REGION_CRC),
     odd_offset_max |-> Region(0, REGION_CRC),
     acor_factory |-> Region([i \in Pixels |-> FACTOR_ONE], REGION_CRC),
     acor_user |-> Region([i \in Pixels |-> FACTOR_ONE], REGION_CRC)]
NoFw == [pc |-> "idle", records |-> <<>>, i |-> 0, printed |-> <<>>]
\* a host with nothing on the bus and no call in progress
NoUsb == [bus |-> <<>>, pc |-> "idle"]

---------------------------------------------------------------------------
(* Specification of the EEPROM reader: any cell contents, any read.        *)

InitReader ==
    /\ \E cells \in [EE_SW_VERSION..ImgLast -> ByteSet] :
           eeprom = [NoEeprom EXCEPT
                        !.img = [a \in ImgAddrs |-> IF a < EE_SW_VERSION THEN 0 ELSE cells[a]]]
    /\ data = TLCCS_DATA
    /\ transfers = <<>>
    /\ op = "none"
    /\ args = <<>>
    /\ err = "none"
    /\ ret = <<>>
    /\ fw = NoFw
    /\ tlccs = "none"
    /\ usb = NoUsb

ReadEEPROM ==
    \E address \in ReadAddrs, length \in 1..MaxReadLen :
        \E r \in {read_EEPROM(eeprom.img, address, 0, length)} :
            /\ Room(r.xfers)
            /\ op' = "read_EEPROM"
            /\ args' = <<address, length>>
            /\ err' = r.err
            /\ ret' = r.data
            /\ transfers' = transfers \o r.xfers
            /\ UNCHANGED <<usb, eeprom, data, fw, tlccs>>

NextReader == ReadEEPROM

SpecReader == InitReader /\ [][NextReader]_vars

\* the cells a read of `length` bytes at `address` covers, and the two after them
StoredPayload(address, length) == [i \in 1..length |-> eeprom.img[address + i - 1]]
StoredChecksum(address, length) ==
    eeprom.img[address + length] + 256 * eeprom.img[address + length + 1]

\* C1: a read_EEPROM at a checksummed address returns the payload when the
\* two little-endian bytes stored behind it are the payload's CRC-16, returns
\* it too when they are 0xFFFF, and raises EEPROMChecksumError, returning
\* nothing, for every other stored value.
C1_ReadChecked ==
    (op = "read_EEPROM" /\ args[1] >= EE_SW_VERSION) =>
        LET payload == StoredPayload(args[1], args[2])
            stored  == StoredChecksum(args[1], args[2])
            crc     == crc16_block(payload, args[2])
        IN  /\ stored = crc => (err = "none" /\ ret = payload)
            /\ stored = EMPTY_CHECKSUM => (err = "none" /\ ret = payload)
            /\ (stored # crc /\ stored # EMPTY_CHECKSUM) =>
                   (err = "EEPROMChecksumError" /\ ret = <<>>)

\* a never-written field: the checksum cells hold 0xFFFF, which is not the CRC
C1_Witness ==
    /\ op = "read_EEPROM"
    /\ args[1] >= EE_SW_VERSION
    /\ StoredChecksum(args[1], args[2]) = EMPTY_CHECKSUM
    /\ crc16_block(StoredPayload(args[1], args[2]), args[2]) # EMPTY_CHECKSUM
    /\ err = "none"
    /\ ret = StoredPayload(args[1], args[2])

---------------------------------------------------------------------------
(* Specification of the codec: encode and decode applied to the samples,   *)
(* and set_integration_time calls on a device.                             *)

InitCodec ==
    /\ eeprom = NoEeprom
    /\ data = TLCCS_DATA
    /\ transfers = <<>>
    /\ op = "none"
    /\ args = <<>>
    /\ err = "none"
    /\ ret = <<>>
    /\ fw = NoFw
    /\ tlccs = "none"
    /\ usb = NoUsb

EncodeIntegrationTime ==
    \E t \in TimeSamples :
        \E r \in {encode_integration_time(t)} :
            /\ op' = "encode_integration_time"
            /\ args' = <<t>>
            /\ err' = r.err
            /\ ret' = r.data
            /\ UNCHANGED <<usb, eeprom, data, transfers, fw, tlccs>>

\* decode applied to what encode returned; args keeps the encoded time beside it
DecodeIntegrationTime ==
    /\ op = "encode_integration_time"
    /\ err = "none"
    /\ op' = "decode_integration_time"
    /\ args' = <<ret, args[1]>>
    /\ err' = "none"
    /\ ret' = decode_integration_time(ret)
    /\ UNCHANGED <<usb, eeprom, data, transfers, fw, tlccs>>

SetIntegrationTime ==
    \E t \in SetTimeSamples :
        \E r \in {set_integration_time(t)} :
            /\ Room(r.xfers)
            /\ op' = "set_integration_time"
            /\ args' = <<t>>
            /\ err' = r.err
            /\ ret' = <<>>
            /\ transfers' = transfers \o r.xfers
            /\ UNCHANGED <<usb, eeprom, data, fw, tlccs>>

NextCodec == EncodeIntegrationTime \/ DecodeIntegrationTime \/ SetIntegrationTime

SpecCodec == InitCodec /\ [][NextCodec]_vars

\* the prescaler field of the six bytes
PrescOf(d) == Mask12(UnpackBE16s(d[1], d[2]))

C3_SetIntegrationTime ==
    [][op' = "set_integration_time" =>
        IF TLCCS_MIN_INT_TIME <= args'[1] /\ args'[1] <= TLCCS_MAX_INT_TIME
        THEN /\ err' = "none"
             /\ Len(transfers') = Len(transfers) + 1
             /\ SubSeq(transfers', 1, Len(transfers)) = transfers
             /\ transfers'[Len(transfers')].bRequest = TLCCS_WCMD_INTEGRATION_TIME
             /\ transfers'[Len(transfers')].bmRequestType = CONTROL_TRANSFER_OUT
        ELSE /\ err' = "ValueError"
             /\ transfers' = transfers]_vars

\* an accepted call after a rejected one: one transfer in all
C3_Witness ==
    /\ op = "set_integration_time"
    /\ err = "none"
    /\ Len(transfers) = 1
    /\ transfers[1].bRequest = TLCCS_WCMD_INTEGRATION_TIME


\* the 16-bit field of the encoded time that starts at byte k
FieldAt(bytes, k) == (256 * bytes[k]) + bytes[k + 1]

\* C21: for every accepted time encode_integration_time returns six bytes,
\* three big-endian 16-bit fields with the top nibbles 0x0, 0x1 and 0x2 and,
\* in the low 12 bits, the prescaler, fill and integration values, each of
\* which fits in 12 bits.
C21_TaggedTwelveBitFields ==
    (op = "encode_integration_time" /\ err = "none") =>
        LET f == IntegFields(args[1])
        IN  /\ Len(ret) = 6
            /\ \A k \in 1..6 : ret[k] \in 0..255
            /\ f.presc \in 0..4095 /\ f.fill \in 0..4095 /\ f.integ \in 0..4095
            /\ FieldAt(ret, 1) \div 4096 = 0
            /\ FieldAt(ret, 3) \div 4096 = 1
            /\ FieldAt(ret, 5) \div 4096 = 2
            /\ FieldAt(ret, 1) % 4096 = f.presc
            /\ FieldAt(ret, 3) % 4096 = f.fill
            /\ FieldAt(ret, 5) % 4096 = f.integ

\* the shortest time was encoded: its fill, 3685, has bits in the high byte
C21_Witness ==
    /\ op = "encode_integration_time"
    /\ err = "none"
    /\ args[1] = TLCCS_MIN_INT_TIME
    /\ FieldAt(ret, 3) = 4096 + 3685
---------------------------------------------------------------------------
(* Specification of the calibration builder: a fresh driver reading the    *)
(* wavelength calibration of a device whose EEPROM holds any of the        *)
(* sample polynomials, user points and checksum words.                     *)

\* factory polynomials: rising, falling, flat and turning curves
FactoryPolys ==
    {<<400, c1, c2, c3>> : c1 \in {-10, 0, 2, 4, 10}, c2 \in {-1, 0, 1}, c3 \in {0, 1}}

\* the polynomials the user points are taken from
UserPolys == {<<500, 10, 0, 0>>, <<500, -10, 0, 0>>, <<500, 2, -1, 0>>, <<500, 2, 0, 1>>}

\* the point counts the EEPROM holds: none fitted, a cubic's four, more than
\* the arrays hold, more than the region holds, never written
CountSamples == {0, 4, 11, 31, EMPTY_COUNT}

\* ten user points: the pixels 0, 1, 2, ... and the polynomial's values there
PointsOf(poly) ==
    [pixel |-> [i \in 1..TLCCS_MAX_NUM_USR_ADJ |-> i - 1],
     wl    |-> [i \in 1..TLCCS_MAX_NUM_USR_ADJ |-> Horner(poly, i - 1)]]

InitCal ==
    /\ \E fp \in FactoryPolys, up \in UserPolys, cnt \in CountSamples,
          s1 \in AnySum, s2 \in AnySum, s3 \in AnySum :
           eeprom = [NoEeprom EXCEPT
                        !.fact_cal_coef_data = Region(fp, s1),
                        !.user_cal_points_cnt = Region(cnt, s2),
                        !.user_cal_points_data = Region(PointsOf(up), s3)]
    /\ data = TLCCS_DATA
    /\ transfers = <<>>
    /\ op = "none"
    /\ args = <<>>
    /\ err = "none"
    /\ ret = <<>>
    /\ fw = NoFw
    /\ tlccs = "none"
    /\ usb = NoUsb

\* get_wavelength_parameters(dev, data); ret is the place an error came from
GetWavelengthParameters ==
    \E r \in {get_wavelength_parameters(eeprom, data)} :
        /\ op' = "get_wavelength_parameters"
        /\ args' = <<>>
        /\ err' = r.err
        /\ ret' = r.at
        /\ data' = r.data
        /\ UNCHANGED <<usb, eeprom, transfers, fw, tlccs>>

NextCal == GetWavelengthParameters

SpecCal == InitCal /\ [][NextCal]_vars

\* the cubic poly[0] + poly[1] i + poly[2] i^2 + poly[3] i^3 at every pixel i
Curve(poly) ==
    [i \in Pixels |-> poly[1] + (poly[2] * i) + (poly[3] * i * i) + (poly[4] * i * i * i)]

StrictlyIncreasing(wl) == \A i \in Pixels, j \in Pixels : i < j => wl[i] < wl[j]
StrictlyDecreasing(wl) == \A i \in Pixels, j \in Pixels : i < j => wl[i] > wl[j]
StrictlyMonotonic(wl) == StrictlyIncreasing(wl) \/ StrictlyDecreasing(wl)

\* the factory polynomial was read: its checksum did not fail
FactoryPolyRead ==
    op = "get_wavelength_parameters" /\ ret # "read_factory_poly"

\* the user polynomial was fitted: the points were read and counted four
UserPolyFitted ==
    /\ FactoryPolyRead
    /\ ret \in {"none", "user"}
    /\ err \notin {"EEPROMChecksumError", "TypeError", "IndexError", "struct.error"}
    /\ eeprom.user_cal_points_cnt.val # EMPTY_COUNT

\* C4: after get_wavelength_parameters returns the factory wl[] is strictly
\* monotonic; whenever the user calibration is valid its wl[] is strictly
\* monotonic; and a factory or user curve that is not strictly monotonic
\* ends the call in InvalidUserData.
C4_MonotonicOrError ==
    /\ (op = "get_wavelength_parameters" /\ err = "none") =>
           StrictlyMonotonic(data.factory_wavelength_cal.wl)
    /\ data.user_wavelength_cal.valid = 1 =>
           StrictlyMonotonic(data.user_wavelength_cal.wl)
    /\ (FactoryPolyRead /\ ~StrictlyMonotonic(Curve(eeprom.fact_cal_coef_data.val))) =>
           err = "InvalidUserData"
    /\ (UserPolyFitted /\ ~StrictlyMonotonic(Curve(data.user_wavelength_cal.poly))) =>
           err = "InvalidUserData"

\* a device with four user points: both calibrations built
C4_Witness ==
    /\ op = "get_wavelength_parameters"
    /\ err = "none"
    /\ data.user_wavelength_cal.valid = 1
    /\ data.user_points.user_cal_node_cnt = 4
    /\ StrictlyMonotonic(data.factory_wavelength_cal.wl)

\* C5: coefficients whose expansion is strictly increasing are accepted with
\* wl[0] = poly[0], min = poly[0] and max = wl[N_PIXELS - 1]; coefficients whose
\* expansion is not monotonic raise InvalidUserData.
C5_IncreasingAccepted ==
    FactoryPolyRead =>
        LET poly == eeprom.fact_cal_coef_data.val
            cal  == data.factory_wavelength_cal
        IN  /\ StrictlyIncreasing(Curve(poly)) =>
                   /\ ~(err = "InvalidUserData" /\ ret = "factory")
                   /\ cal.poly = poly
                   /\ cal.wl[0] = poly[1]
                   /\ cal.min = poly[1]
                   /\ cal.max = cal.wl[TLCCS_NUM_PIXELS - 1]
                   /\ StrictlyIncreasing(cal.wl)
            /\ ~StrictlyMonotonic(Curve(poly)) =>
                   (err = "InvalidUserData" /\ ret = "factory")

\* a rising factory curve, accepted
C5_Witness ==
    /\ FactoryPolyRead
    /\ err = "none"
    /\ StrictlyIncreasing(Curve(eeprom.fact_cal_coef_data.val))
    /\ data.factory_wavelength_cal.max > data.factory_wavelength_cal.min

\* C6: coefficients whose expansion is strictly decreasing are accepted, with
\* min = wl[N_PIXELS - 1] and max = wl[0]; an error is raised only when
\* wl[0] = wl[1] or a later pixel breaks the direction.
C6_DecreasingAccepted ==
    FactoryPolyRead =>
        LET poly == eeprom.fact_cal_coef_data.val
            cal  == data.factory_wavelength_cal
        IN  StrictlyDecreasing(Curve(poly)) =>
                /\ ~(err = "InvalidUserData" /\ ret = "factory")
                /\ cal.min = cal.wl[TLCCS_NUM_PIXELS - 1]
                /\ cal.max = cal.wl[0]

---------------------------------------------------------------------------
(* Scan engine.  A normalized sample is the exact fraction <<num, den>> of
   the quotient the code computes in floating point; an amplitude factor
   is an integer number of thousandths.                                    *)

\* the 16-bit words of raw_scan_data that the code indexes
RawIdx == 0..(SCAN_PIXELS_OFFSET + TLCCS_NUM_PIXELS - 1)

\* dark_com before its division: the sum of the first n dark samples
RECURSIVE dark_sum(_, _)
dark_sum(raw_scan_data, n) ==
    IF n = 0 THEN 0
    ELSE raw_scan_data[DARK_PIXELS_OFFSET + n - 1] + dark_sum(raw_scan_data, n - 1)

\* a test that fires at full scale only
OverexposedMutant(s) == s >= MAX_ADC_VALUE * NO_DARK_PIXELS

\* dark_com > DARK_LEVEL_THRESHOLD_ADC, both sides times 100 * NO_DARK_PIXELS
Overexposed(s) ==
    s * 100 > DARK_LEVEL_THRESHOLD_X100 * MAX_ADC_VALUE * NO_DARK_PIXELS

\* a normalization that forgets to subtract the dark level from the sample
NormalizeMutant(sample, s) ==
    Frac(sample * NO_DARK_PIXELS, (MAX_ADC_VALUE * NO_DARK_PIXELS) - s)

\* (sample - dark_com) * norm_com, with dark_com = s / NO_DARK_PIXELS
Normalize(sample, s) ==
    Frac((sample * NO_DARK_PIXELS) - s, (MAX_ADC_VALUE * NO_DARK_PIXELS) - s)

\* the ctrl_transfer of start_single_scan
StartScanTransfer ==
    [bmRequestType |-> CONTROL_TRANSFER_OUT, bRequest |-> TLCCS_WCMD_MODUS,
     wValue |-> MODUS_INTERN_SINGLE_SHOT, wIndex |-> 0, data_or_wLength |-> 0]

\* get_scan_data: [scan, err]
get_scan_data(raw_scan_data) ==
    LET s == dark_sum(raw_scan_data, NO_DARK_PIXELS)
    IN  IF Overexposed(s) THEN [scan |-> <<>>, err |-> "Overexposure"]
        ELSE [scan |-> [i \in Pixels |->
                           Normalize(raw_scan_data[SCAN_PIXELS_OFFSET + i], s)],
              err |-> "none"]

\* get_scan_data_factory: [scan, err]
get_scan_data_factory(d, raw_scan_data) ==
    LET s == get_scan_data(raw_scan_data)
    IN  IF s.err # "none" THEN s
        ELSE [scan |-> [i \in Pixels |->
                           FracMul(s.scan[i],
                                   d.factory_amplitude_cal.amplitude_cor[i], FACTOR_ONE)],
              err |-> "none"]

\* next(i for i, val in enumerate(wl) if val > x); -1 where next() raises
first_above(wl, x) ==
    IF \E i \in Pixels : wl[i] > x
    THEN CHOOSE i \in Pixels : wl[i] > x /\ \A j \in Pixels : j < i => wl[j] <= x
    ELSE -1

\* min() and max() of the slice amplitude_cor[idx_min:idx_max]
slice_min(cor, idx_min, idx_max) ==
    CHOOSE m \in {cor[i] : i \in idx_min..(idx_max - 1)} :
        \A i \in idx_min..(idx_max - 1) : m <= cor[i]

slice_max(cor, idx_min, idx_max) ==
    CHOOSE m \in {cor[i] : i \in idx_min..(idx_max - 1)} :
        \A i \in idx_min..(idx_max - 1) : m >= cor[i]

\* get_scan_data_corrected_range: [scan, noise_amplification_mult, err];
\* the returned dB figure is 10 * log10 of noise_amplification_mult
get_scan_data_corrected_range(d, min_wl, max_wl, raw_scan_data) ==
    LET wl      == d.factory_wavelength_cal.wl
        idx_min == first_above(wl, min_wl)
        idx_max == first_above(wl, max_wl)
        cor     == d.user_amplitude_cal.amplitude_cor
        s       == get_scan_data(raw_scan_data)
        failed(e) == [scan |-> <<>>, noise_amplification_mult |-> <<>>, err |-> e]
    IN  IF idx_min = -1 \/ idx_max = -1 THEN failed("StopIteration")
        ELSE IF idx_min >= idx_max THEN failed("ValueError")
        ELSE IF s.err # "none" THEN failed(s.err)
        ELSE [scan |-> [i \in Pixels |->
                           IF i < idx_min \/ i > idx_max THEN <<0, 1>>
                           ELSE FracMul(s.scan[i], cor[i],
                                        slice_min(cor, idx_min, idx_max))],
              noise_amplification_mult |->
                  Frac(slice_max(cor, idx_min, idx_max), slice_min(cor, idx_min, idx_max)),
              err |-> "none"]

\* next(i for i, val in enumerate(wl) if val >= x); -1 where next() raises
first_at_or_above(wl, x) ==
    IF \E i \in Pixels : wl[i] >= x
    THEN CHOOSE i \in Pixels : wl[i] >= x /\ \A j \in Pixels : j < i => wl[j] < x
    ELSE -1

min(a, b) == IF a <= b THEN a ELSE b
max(a, b) == IF a >= b THEN a ELSE b

\* a test that lets every expansion through
WithinThresholdMutant(new_min, new_max, threshold) == TRUE

\* new_max / new_min <= threshold, threshold in thousandths
WithinThreshold(new_min, new_max, threshold) ==
    new_max * FACTOR_ONE <= threshold * new_min

\* an iteration that never tries the right side alone
find_centered_stepMutant(arr, left, right, min_val, max_val, threshold) ==
    LET n       == TLCCS_NUM_PIXELS
        both    == left > 0 /\ right < n - 1
        bothMin == min(min(min_val, arr[left - 1]), arr[right + 1])
        bothMax == max(max(max_val, arr[left - 1]), arr[right + 1])
        leftMin == min(min_val, arr[left - 1])
        leftMax == max(max_val, arr[left - 1])
        window(l, r, lo, hi, e) ==
            [left |-> l, right |-> r, min_val |-> lo, max_val |-> hi, expanded |-> e]
    IN  IF both /\ WithinThreshold(bothMin, bothMax, threshold)
        THEN window(left - 1, right + 1, bothMin, bothMax, TRUE)
        ELSE IF left > 0 /\ WithinThreshold(leftMin, leftMax, threshold)
        THEN window(left - 1, right, leftMin, leftMax, TRUE)
        ELSE window(left, right, min_val, max_val, FALSE)

\* one iteration of the while loop of find_centered_range:
\* [left, right, min_val, max_val, expanded]
find_centered_step(arr, left, right, min_val, max_val, threshold) ==
    LET n       == TLCCS_NUM_PIXELS
        both    == left > 0 /\ right < n - 1
        bothMin == min(min(min_val, arr[left - 1]), arr[right + 1])
        bothMax == max(max(max_val, arr[left - 1]), arr[right + 1])
        leftMin == min(min_val, arr[left - 1])
        leftMax == max(max_val, arr[left - 1])
        rightMin == min(min_val, arr[right + 1])
        rightMax == max(max_val, arr[right + 1])
        window(l, r, lo, hi, e) ==
            [left |-> l, right |-> r, min_val |-> lo, max_val |-> hi, expanded |-> e]
    IN  IF both /\ WithinThreshold(bothMin, bothMax, threshold)
        THEN window(left - 1, right + 1, bothMin, bothMax, TRUE)
        ELSE IF left > 0 /\ WithinThreshold(leftMin, leftMax, threshold)
        THEN window(left - 1, right, leftMin, leftMax, TRUE)
        ELSE IF right < n - 1 /\ WithinThreshold(rightMin, rightMax, threshold)
        THEN window(left, right + 1, rightMin, rightMax, TRUE)
        ELSE window(left, right, min_val, max_val, FALSE)

\* the while loop of find_centered_range from (left, right, min_val, max_val):
\* [left, right, min_val, max_val]
RECURSIVE find_centered_loop(_, _, _, _, _, _)
find_centered_loop(arr, left, right, min_val, max_val, threshold) ==
    LET s == find_centered_step(arr, left, right, min_val, max_val, threshold)
    IN  IF s.expanded
        THEN find_centered_loop(arr, s.left, s.right, s.min_val, s.max_val, threshold)
        ELSE [left |-> left, right |-> right, min_val |-> min_val, max_val |-> max_val]

find_centered_range(arr, center, threshold) ==
    find_centered_loop(arr, center, center, arr[center], arr[center], threshold)

\* 10**(noise_amplification_dB/10) in thousandths, for tenths of a dB
noise_multiplier(tenths_dB) ==
    CASE tenths_dB = 0 -> 1000
      [] tenths_dB = 10 -> 1259
      [] tenths_dB = 31 -> 2042

\* get_scan_data_corrected_noise: [scan, wavelength_left, wavelength_right, err]
get_scan_data_corrected_noise(d, center_wl, tenths_dB, raw_scan_data) ==
    LET wl   == d.factory_wavelength_cal.wl
        cor  == d.user_amplitude_cal.amplitude_cor
        idx_center == first_at_or_above(wl, center_wl)
        rng  == find_centered_range(cor, idx_center, noise_multiplier(tenths_dB))
        s    == get_scan_data(raw_scan_data)
        failed(e) == [scan |-> <<>>, wavelength_left |-> 0, wavelength_right |-> 0,
                      err |-> e]
    IN  IF idx_center = -1 THEN failed("StopIteration")
        ELSE IF s.err # "none" THEN failed(s.err)
        ELSE [scan |-> [i \in Pixels |->
                           IF i < rng.left \/ i > rng.right THEN <<0, 1>>
                           ELSE FracMul(s.scan[i], cor[i], rng.min_val)],
              wavelength_left |-> wl[rng.left],
              wavelength_right |-> wl[rng.right],
              err |-> "none"]

\* a loop condition that leaves on any status but 0
ScanNotReadyMutant(status) == status = 0

\* (status & TLCCS_STATUS_SCAN_TRANSFER) == 0
ScanNotReady(status) == BitAnd(status, TLCCS_STATUS_SCAN_TRANSFER) = 0

\* the ctrl_transfer of get_device_status
StatusTransfer ==
    [bmRequestType |-> CONTROL_TRANSFER_IN_ZERO, bRequest |-> TLCCS_RCMD_GET_STATUS,
     wValue |-> 0, wIndex |-> 0, data_or_wLength |-> UINT16_SZ]

\* dev.read(0x86, TLCCS_NUM_RAW_PIXELS*UINT16_SZ)
BulkRead ==
    [endpoint |-> BULK_IN_ENDPOINT, size_or_buffer |-> TLCCS_NUM_RAW_PIXELS * UINT16_SZ]

---------------------------------------------------------------------------
(* Specification of the scan engine: a device with any user amplitude
   factors is opened, and scans of any dark level are read from it.        *)

\* user amplitude factors 1.0 and 2.0
FactorSamples == {FACTOR_ONE, 2 * FACTOR_ONE}
\* the first dark sample and the eleven others: dark, dim, the last sum
\* below the overexposure threshold, the first one above it, saturated
DarkLevels == {<<0, 0>>, <<100, 100>>, <<64875, 64880>>, <<64876, 64880>>,
               <<MAX_ADC_VALUE, MAX_ADC_VALUE>>}
PixSamples == {0, 100, MAX_ADC_VALUE}
\* window limits around the wavelengths 400, 410, 420, ... of the factory curve
WlSamples == {401, 405, 415, 420}

RawOf(dk, pix) ==
    [k \in RawIdx |->
        IF k = DARK_PIXELS_OFFSET THEN dk[1]
        ELSE IF k > DARK_PIXELS_OFFSET /\ k < DARK_PIXELS_OFFSET + NO_DARK_PIXELS THEN dk[2]
        ELSE IF k >= SCAN_PIXELS_OFFSET THEN pix[k - SCAN_PIXELS_OFFSET]
        ELSE 0]

RawSamples == {RawOf(dk, pix) : dk \in DarkLevels, pix \in [Pixels -> PixSamples]}

InitScan ==
    /\ \E uf \in [Pixels -> FactorSamples] :
           eeprom = [NoEeprom EXCEPT !.acor_user = Region(uf, REGION_CRC)]
    /\ data = TLCCS_DATA
    /\ transfers = <<>>
    /\ op = "none"
    /\ args = <<>>
    /\ err = "none"
    /\ ret = <<>>
    /\ fw = NoFw
    /\ tlccs = "none"
    /\ usb = NoUsb

\* TLCCS.__init__: initialize(self.dev, self.data)
Open ==
    /\ tlccs = "none"
    /\ \E r \in {initialize(eeprom, data)} :
        /\ Room(r.xfers)
        /\ op' = "initialize"
        /\ args' = <<>>
        /\ err' = r.err
        /\ ret' = <<>>
        /\ data' = r.data
        /\ transfers' = transfers \o r.xfers
        /\ tlccs' = IF r.err = "none" THEN "open" ELSE "none"
        /\ UNCHANGED <<usb, eeprom, fw>>

\* start_single_scan(dev): the device makes one scan ready to be read
StartSingleScan ==
    /\ tlccs = "open"
    /\ Room(<<StartScanTransfer>>)
    /\ transfers' = Append(transfers, StartScanTransfer)
    /\ tlccs' = "scanned"
    /\ op' = "start_single_scan"
    /\ args' = <<>>
    /\ err' = "none"
    /\ ret' = <<>>
    /\ UNCHANGED <<usb, eeprom, data, fw>>

GetScanData ==
    /\ tlccs = "scanned"
    /\ \E raw \in RawSamples :
       \E r \in {get_scan_data(raw)} :
        /\ op' = "get_scan_data"
        /\ args' = <<raw>>
        /\ err' = r.err
        /\ ret' = r.scan
        /\ tlccs' = "open"
        /\ UNCHANGED <<usb, eeprom, data, transfers, fw>>

GetScanDataFactory ==
    /\ tlccs = "scanned"
    /\ \E raw \in RawSamples :
       \E r \in {get_scan_data_factory(data, raw)} :
        /\ op' = "get_scan_data_factory"
        /\ args' = <<raw>>
        /\ err' = r.err
        /\ ret' = r.scan
        /\ tlccs' = "open"
        /\ UNCHANGED <<usb, eeprom, data, transfers, fw>>

GetScanDataCorrectedRange ==
    /\ tlccs = "scanned"
    /\ \E raw \in RawSamples, min_wl \in WlSamples, max_wl \in WlSamples :
       \E r \in {get_scan_data_corrected_range(data, min_wl, max_wl, raw)} :
        /\ min_wl < max_wl
        /\ op' = "get_scan_data_corrected_range"
        /\ args' = <<min_wl, max_wl,
                     IF r.err \in {"StopIteration", "ValueError"} THEN <<>> ELSE raw>>
        /\ err' = r.err
        /\ ret' = IF r.err = "none"
                  THEN [scan |-> r.scan,
                        noise_amplification_mult |-> r.noise_amplification_mult]
                  ELSE <<>>
        /\ tlccs' = IF r.err \in {"StopIteration", "ValueError"} THEN "scanned" ELSE "open"
        /\ UNCHANGED <<usb, eeprom, data, transfers, fw>>

NextScan == Open \/ StartSingleScan \/ GetScanData \/ GetScanDataFactory \/ GetScanDataCorrectedRange

SpecScan == InitScan /\ [][NextScan]_vars

\* the dark average of a raw buffer is at or above 0.99 * 65535
DarkAtOrAboveThreshold(raw) ==
    dark_sum(raw, NO_DARK_PIXELS) * 100
        >= DARK_LEVEL_THRESHOLD_X100 * MAX_ADC_VALUE * NO_DARK_PIXELS

\* C7: get_scan_data raises Overexposure, returning no spectrum, whenever the
\* average of the 12 dark pixels is at or above 0.99 * 65535, and does not
\* raise it whenever the average is below.
C7_OverexposureThreshold ==
    op = "get_scan_data" =>
        /\ DarkAtOrAboveThreshold(args[1]) => err = "Overexposure" /\ ret = <<>>
        /\ ~DarkAtOrAboveThreshold(args[1]) => err = "none"

\* a scan was refused whose dark sum is the first one over the threshold
C7_Witness ==
    /\ op = "get_scan_data"
    /\ err = "Overexposure"
    /\ DarkAtOrAboveThreshold(args[1])
    /\ (dark_sum(args[1], NO_DARK_PIXELS) - 1) * 100
           < DARK_LEVEL_THRESHOLD_X100 * MAX_ADC_VALUE * NO_DARK_PIXELS

\* C8 as claimed: every element of a returned normalized array lies in [0, 1].
C8_NormalizedInUnitInterval ==
    (op = "get_scan_data" /\ err = "none") =>
        \A i \in Pixels : FracLeq(<<0, 1>>, ret[i]) /\ FracLeq(ret[i], <<1, 1>>)

\* C8: every element of a returned normalized array is at most 1, and it is
\* at least 0 exactly when its raw sample is not below the dark average.
C8_NormalizedRange ==
    (op = "get_scan_data" /\ err = "none") =>
        \A i \in Pixels :
            /\ FracLeq(ret[i], <<1, 1>>)
            /\ FracLeq(<<0, 1>>, ret[i])
                   <=> args[1][SCAN_PIXELS_OFFSET + i] * NO_DARK_PIXELS
                           >= dark_sum(args[1], NO_DARK_PIXELS)

\* a returned array holding a negative element and a full-scale one
C8_Witness ==
    /\ op = "get_scan_data"
    /\ err = "none"
    /\ \E i \in Pixels : ~FracLeq(<<0, 1>>, ret[i])
    /\ \E i \in Pixels : ret[i] = <<1, 1>>

\* the pixels inside the index bounds of a window
InsideBounds(wl, min_wl, max_wl) ==
    {i \in Pixels : first_above(wl, min_wl) <= i /\ i <= first_above(wl, max_wl)}

MinFactor(cor, inside) == CHOOSE m \in {cor[i] : i \in inside} : \A i \in inside : m <= cor[i]

\* C9 as claimed: a returned range-corrected scan is 0 outside the index
\* bounds and, inside them, the normalized value times user_factor[i] over
\* the minimum user factor of the inside-bound pixels.
C9_ScaledByWindowMinimum ==
    (/\ op = "get_scan_data_corrected_range"
     /\ err = "none"
     /\ data.factory_wavelength_cal.wl[0] <= args[1]
     /\ args[1] < args[2]
     /\ args[2] <= data.factory_wavelength_cal.wl[TLCCS_NUM_PIXELS - 1]) =>
        LET inside == InsideBounds(data.factory_wavelength_cal.wl, args[1], args[2])
            cor    == data.user_amplitude_cal.amplitude_cor
        IN  \A i \in Pixels :
                ret.scan[i] = IF i \in inside
                              THEN FracMul(get_scan_data(args[3]).scan[i], cor[i],
                                           MinFactor(cor, inside))
                              ELSE <<0, 1>>

---------------------------------------------------------------------------
(* Firmware upload: the loop of upload_firmware, one ctrl_transfer a step. *)

\* the records parse_spt yields
FwRecords ==
    {[bRequest |-> 160, wValue |-> 58880, wIndex |-> 0, wLength |-> 1, data |-> <<1>>],
     [bRequest |-> 160, wValue |-> 0, wIndex |-> 0, wLength |-> 2, data |-> <<2, 3>>],
     [bRequest |-> 160, wValue |-> 58880, wIndex |-> 0, wLength |-> 1, data |-> <<0>>]}

RecordSeqs == UNION {[1..n -> FwRecords] : n \in 0..MaxTransfers}

\* the ctrl_transfer of one record
FirmwareTransfer(rec) ==
    [bmRequestType |-> CONTROL_TRANSFER_OUT, bRequest |-> rec.bRequest,
     wValue |-> rec.wValue, wIndex |-> rec.wIndex, data_or_wLength |-> rec.data]

\* a handler that goes on with the next record
AfterUSBErrorMutant == "loop"

\* where the except clause leaves the loop: break
AfterUSBError == "done"

InitFw ==
    /\ eeprom = NoEeprom
    /\ data = TLCCS_DATA
    /\ transfers = <<>>
    /\ op = "none"
    /\ args = <<>>
    /\ err = "none"
    /\ ret = <<>>
    /\ fw = NoFw
    /\ tlccs = "none"
    /\ usb = NoUsb

\* upload_firmware(dev, records) is entered
UploadFirmware ==
    /\ fw.pc = "idle"
    /\ \E records \in RecordSeqs :
        /\ Room(records)
        /\ fw' = [pc |-> "loop", records |-> records, i |-> 0, printed |-> <<>>]
        /\ op' = "upload_firmware"
        /\ args' = <<records>>
        /\ err' = "none"
        /\ ret' = <<>>
        /\ UNCHANGED <<usb, eeprom, data, transfers, tlccs>>

\* the transfer of the next record succeeds
CtrlTransferDone ==
    /\ fw.pc = "loop"
    /\ fw.i < Len(fw.records)
    /\ transfers' = Append(transfers, FirmwareTransfer(fw.records[fw.i + 1]))
    /\ fw' = [fw EXCEPT !.i = @ + 1]
    /\ UNCHANGED <<usb, eeprom, data, op, args, err, ret, tlccs>>

\* the transfer of the next record raises usb.core.USBError
CtrlTransferUSBError ==
    /\ fw.pc = "loop"
    /\ fw.i < Len(fw.records)
    /\ transfers' = Append(transfers, FirmwareTransfer(fw.records[fw.i + 1]))
    /\ fw' = [fw EXCEPT !.i = @ + 1,
                        !.printed = Append(@, fw.i + 1),
                        !.pc = AfterUSBError]
    /\ UNCHANGED <<usb, eeprom, data, op, args, err, ret, tlccs>>

\* the records are exhausted and upload_firmware returns
UploadReturns ==
    /\ fw.pc = "loop"
    /\ fw.i = Len(fw.records)
    /\ fw' = [fw EXCEPT !.pc = "done"]
    /\ UNCHANGED <<usb, eeprom, data, transfers, op, args, err, ret, tlccs>>

NextFw == UploadFirmware \/ CtrlTransferDone \/ CtrlTransferUSBError \/ UploadReturns

SpecFw == InitFw /\ [][NextFw]_vars

\* C10: upload_firmware issues one control transfer per record in file order;
\* when the transfer of record k fails with a USB error, no transfer of a
\* later record is issued, block index k is reported, and the function
\* returns without raising.
C10_UploadInOrder ==
    /\ [](fw.pc # "idle" =>
            /\ Len(transfers) = fw.i
            /\ fw.i <= Len(fw.records)
            /\ \A j \in 1..Len(transfers) : transfers[j] = FirmwareTransfer(fw.records[j])
            /\ (fw.pc = "done" /\ fw.printed = <<>>) => Len(transfers) = Len(fw.records)
            /\ fw.printed # <<>> => fw.pc = "done" /\ fw.printed = <<Len(transfers)>>
            /\ err = "none")
    /\ [][fw.pc = "done" => transfers' = transfers]_vars

\* the second of three records failed and the upload is over
C10_Witness ==
    /\ fw.pc = "done"
    /\ Len(fw.records) = 3
    /\ fw.printed = <<2>>
    /\ Len(transfers) = 2

---------------------------------------------------------------------------
(* Discovery: list_spectrometers, renumerate and wait_for_device.  A device
   on the bus is a record of its ids, its port path and its serial number;
   loaded says that it has received its whole firmware and will leave the
   bus to come back under the next product id.  Time is counted in sleeps
   of wait_for_device, 0.1 s each.                                         *)

THORLABS_VID == 4883
PID_RANGE_FIRST == 32896
PID_RANGE_LAST == 32905
\* DEFAULT_RENUMERATION_TIMEOUT in sleeps of 0.1 s; 100 in the source
TimeoutTicks == 2
\* the most devices on the bus
MaxDevices == 2
\* status reads one call is followed through
MaxPolls == 3
\* the longest read is of MaxChunks full chunks and one byte
MaxChunks == 2
\* blocks in a firmware file
MaxBlocks == 2
\* the calls made on one TLCCS instance
MaxCalls == 2

\* range(*PID_RANGE): the last product id of the table is not in it
InPidRange(idProduct) == idProduct >= PID_RANGE_FIRST /\ idProduct < PID_RANGE_LAST

\* a match that looks at the product id alone
MatchesMutant(d, idProduct, port_numbers) ==
    d.idVendor = THORLABS_VID /\ d.idProduct = idProduct

\* the tests of usb.core.find in renumerate and wait_for_device
Matches(d, idProduct, port_numbers) ==
    d.idVendor = THORLABS_VID /\ d.idProduct = idProduct /\ d.port_numbers = port_numbers

\* a poll for the product id the device was uploaded under
NextPidMutant(PID) == PID

\* the product id renumerate hands wait_for_device: PID+1
NextPid(PID) == PID + 1

\* what usb.core.find returns when nothing matches: None
NoDevice ==
    [idVendor |-> 0, idProduct |-> 0, port_numbers |-> 0, serial_number |-> 0,
     loaded |-> FALSE]

\* usb.core.find: the first device of the bus that matches, or None
find(bus, idProduct, port_numbers) ==
    IF \E i \in 1..Len(bus) : Matches(bus[i], idProduct, port_numbers)
    THEN bus[CHOOSE i \in 1..Len(bus) :
                 /\ Matches(bus[i], idProduct, port_numbers)
                 /\ \A j \in 1..(i - 1) : ~Matches(bus[j], idProduct, port_numbers)]
    ELSE NoDevice

\* usb.core.find(find_all = True) of list_spectrometers, in bus order
RECURSIVE find_all(_)
find_all(bus) ==
    IF bus = <<>> THEN <<>>
    ELSE IF Head(bus).idVendor = THORLABS_VID /\ InPidRange(Head(bus).idProduct)
         THEN <<Head(bus)>> \o find_all(Tail(bus))
         ELSE find_all(Tail(bus))

DevInfo(d) == [vid |-> d.idVendor, pid |-> d.idProduct, serial_number |-> d.serial_number]

\* parse_spt(pid_firmware_map[idProduct]): a firmware file of one block
firmware(idProduct) ==
    <<[bRequest |-> 160, wValue |-> 58880, wIndex |-> 0, wLength |-> 1, data |-> <<1>>]>>

---------------------------------------------------------------------------
(* Specification of discovery: any devices on the bus, one call of
   list_spectrometers, devices that come back after their upload or not.   *)

\* CCS100 without and with firmware, CCS200 without and with firmware
PidSamples == {PID_RANGE_FIRST, PID_RANGE_FIRST + 1, PID_RANGE_LAST - 1, PID_RANGE_LAST}

Device(idProduct, port) ==
    [idVendor |-> THORLABS_VID, idProduct |-> idProduct, port_numbers |-> port,
     serial_number |-> 100 + port, loaded |-> FALSE]

Buses ==
    UNION {{[p \in 1..n |-> Device(pids[p], p)] : pids \in [1..n -> PidSamples]} :
           n \in 0..MaxDevices}

InitDisc ==
    /\ eeprom = NoEeprom
    /\ data = TLCCS_DATA
    /\ transfers = <<>>
    /\ op = "none"
    /\ args = <<>>
    /\ err = "none"
    /\ ret = <<>>
    /\ fw = NoFw
    /\ tlccs = "none"
    /\ \E bus \in Buses : usb = [bus |-> bus, pc |-> "idle"]

\* list_spectrometers() is entered: the devices of the family are enumerated
ListSpectrometers ==
    /\ usb.pc = "idle"
    /\ usb' = [bus |-> usb.bus, pc |-> "loop", seen |-> usb.bus,
               devices |-> find_all(usb.bus), k |-> 1, res |-> <<>>,
               dev |-> NoDevice, elapsed |-> 0, printed |-> <<>>]
    /\ op' = "list_spectrometers"
    /\ args' = <<>>
    /\ err' = "none"
    /\ ret' = <<>>
    /\ UNCHANGED <<eeprom, data, transfers, fw, tlccs>>

\* the next device has an odd product id: it is appended as it is
AppendInitialized ==
    /\ usb.pc = "loop"
    /\ usb.k <= Len(usb.devices)
    /\ usb.devices[usb.k].idProduct % 2 = 1
    /\ usb' = [usb EXCEPT !.res = Append(@, DevInfo(usb.devices[usb.k])),
                          !.k = @ + 1]
    /\ UNCHANGED <<eeprom, data, transfers, op, args, err, ret, fw, tlccs>>

\* the next device has an even product id: renumerate() finds it and
\* starts upload_firmware, or raises DeviceNotFound
Renumerate ==
    /\ usb.pc = "loop"
    /\ usb.k <= Len(usb.devices)
    /\ usb.devices[usb.k].idProduct % 2 = 0
    /\ \E d \in {find(usb.bus, usb.devices[usb.k].idProduct,
                      usb.devices[usb.k].port_numbers)} :
         IF d = NoDevice
         THEN /\ err' = "DeviceNotFound"
              /\ usb' = [usb EXCEPT !.pc = "done"]
              /\ UNCHANGED fw
         ELSE /\ Room(firmware(d.idProduct))
              /\ fw' = [pc |-> "loop", records |-> firmware(d.idProduct),
                        i |-> 0, printed |-> <<>>]
              /\ usb' = [usb EXCEPT !.pc = "upload", !.dev = d]
              /\ UNCHANGED err
    /\ UNCHANGED <<eeprom, data, transfers, op, args, ret, tlccs>>

\* upload_firmware has returned: wait_for_device takes its start time; a
\* device that got every block is loaded, one whose upload broke off may be
\* (the transfer that releases the CPU can fail while the device restarts)
WaitForDevice ==
    /\ usb.pc = "upload"
    /\ fw.pc = "done"
    /\ \E loaded \in (IF fw.printed = <<>> THEN {TRUE} ELSE BOOLEAN) :
        usb' = [usb EXCEPT
                 !.pc = "wait",
                 !.elapsed = 0,
                 !.printed = fw.printed,
                 !.bus = [i \in 1..Len(usb.bus) |->
                             IF usb.bus[i].port_numbers = usb.dev.port_numbers /\ loaded
                             THEN [usb.bus[i] EXCEPT !.loaded = TRUE]
                             ELSE usb.bus[i]]]
    /\ fw' = NoFw
    /\ UNCHANGED <<eeprom, data, transfers, op, args, err, ret, tlccs>>

\* a loaded device leaves the bus and comes back under the next product id
Reenumerates ==
    /\ \E i \in 1..Len(usb.bus) :
        /\ usb.bus[i].loaded
        /\ usb' = [usb EXCEPT !.bus[i] = [@ EXCEPT !.idProduct = @ + 1,
                                                   !.loaded = FALSE]]
    /\ UNCHANGED <<eeprom, data, transfers, op, args, err, ret, fw, tlccs>>

\* one turn of the loop of wait_for_device within the timeout: the device
\* is found and appended, or the loop sleeps
WaitPoll ==
    /\ usb.pc = "wait"
    /\ usb.elapsed < TimeoutTicks
    /\ \E d \in {find(usb.bus, NextPid(usb.dev.idProduct), usb.dev.port_numbers)} :
         IF d # NoDevice
         THEN usb' = [usb EXCEPT !.pc = "loop", !.k = @ + 1,
                                 !.res = Append(@, DevInfo(d)), !.dev = d]
         ELSE usb' = [usb EXCEPT !.elapsed = @ + 1]
    /\ UNCHANGED <<eeprom, data, transfers, op, args, err, ret, fw, tlccs>>

\* the timeout has elapsed: RenumerationFailed
WaitTimeout ==
    /\ usb.pc = "wait"
    /\ usb.elapsed >= TimeoutTicks
    /\ err' = "RenumerationFailed"
    /\ usb' = [usb EXCEPT !.pc = "done"]
    /\ UNCHANGED <<eeprom, data, transfers, op, args, ret, fw, tlccs>>

\* the enumeration is exhausted: res is returned
ListReturns ==
    /\ usb.pc = "loop"
    /\ usb.k > Len(usb.devices)
    /\ ret' = usb.res
    /\ usb' = [usb EXCEPT !.pc = "done"]
    /\ UNCHANGED <<eeprom, data, transfers, op, args, err, fw, tlccs>>

NextDisc ==
    \/ ListSpectrometers \/ AppendInitialized \/ Renumerate
    \/ CtrlTransferDone \/ CtrlTransferUSBError \/ UploadReturns
    \/ WaitForDevice \/ Reenumerates \/ WaitPoll \/ WaitTimeout \/ ListReturns

SpecDisc == InitDisc /\ [][NextDisc]_vars

\* the loop of wait_for_device keeps running while the call is in it
SpecDiscFair == SpecDisc /\ WF_vars(WaitPoll) /\ WF_vars(WaitTimeout)

\* the devices of the CCS family on a bus, in bus order: the product ids
\* CCS100_PID_U .. CCS200_PID
RECURSIVE FamilyOf(_)
FamilyOf(bus) ==
    IF bus = <<>> THEN <<>>
    ELSE IF /\ Head(bus).idVendor = THORLABS_VID
            /\ Head(bus).idProduct >= PID_RANGE_FIRST
            /\ Head(bus).idProduct <= PID_RANGE_LAST
         THEN <<Head(bus)>> \o FamilyOf(Tail(bus))
         ELSE FamilyOf(Tail(bus))

\* the entry discovery owes a device: itself when its product id is odd,
\* its re-enumerated counterpart when it is even
EntryOf(d) ==
    IF d.idProduct % 2 = 1 THEN DevInfo(d)
    ELSE [DevInfo(d) EXCEPT !.pid = @ + 1]

\* C11 as claimed: a returned list holds, in enumeration order, every device
\* with an odd product id as it is and, for every device with an even
\* product id, its re-enumerated counterpart with the product id plus one;
\* firmware goes to devices with an even product id only.
C11_DecidedByParity ==
    /\ (usb.pc = "done" /\ op = "list_spectrometers" /\ err = "none") =>
          /\ ret = [i \in 1..Len(FamilyOf(usb.seen)) |-> EntryOf(FamilyOf(usb.seen)[i])]
          /\ \A i \in 1..Len(ret) : ret[i].pid % 2 = 1
    /\ fw.pc = "loop" => usb.dev.idProduct % 2 = 0

\* C12: wait_for_device terminates; it returns a device only within the
\* timeout, and then the first device of the bus with the vendor id, the
\* requested product id (that of the uploaded device plus one) and the same
\* port path; it sleeps only when no device matches; it raises
\* RenumerationFailed only once the timeout has elapsed.
C12_WaitForDeviceTerminates ==
    /\ [][(usb.pc = "wait" /\ usb'.pc = "loop") =>
            /\ usb.elapsed < TimeoutTicks
            /\ \E i \in 1..Len(usb.bus) : usb'.dev = usb.bus[i]
            /\ usb'.dev.idVendor = THORLABS_VID
            /\ usb'.dev.idProduct = usb.dev.idProduct + 1
            /\ usb'.dev.port_numbers = usb.dev.port_numbers
            /\ usb'.res = Append(usb.res, DevInfo(usb'.dev))]_vars
    /\ [][(usb.pc = "wait" /\ usb'.pc = "wait" /\ usb'.bus = usb.bus) =>
            /\ usb'.elapsed = usb.elapsed + 1
            /\ usb.elapsed < TimeoutTicks
            /\ \A i \in 1..Len(usb.bus) :
                  ~(/\ usb.bus[i].idVendor = THORLABS_VID
                    /\ usb.bus[i].idProduct = usb.dev.idProduct + 1
                    /\ usb.bus[i].port_numbers = usb.dev.port_numbers)]_vars
    /\ [][(usb.pc = "wait" /\ usb'.pc = "done") =>
            /\ err' = "RenumerationFailed"
            /\ usb.elapsed >= TimeoutTicks]_vars
    /\ (usb.pc = "wait") ~> (usb.pc # "wait")

\* wait_for_device slept once and then returned the re-enumerated device,
\* although another device with the same product id sits on another port
C12_Witness ==
    /\ usb.pc = "loop"
    /\ usb.elapsed = 1
    /\ usb.dev.idProduct % 2 = 1
    /\ \E i \in 1..Len(usb.bus) :
          /\ usb.bus[i].idProduct = usb.dev.idProduct
          /\ usb.bus[i].port_numbers # usb.dev.port_numbers


\* C22 as claimed: a returned list holds one entry for every attached device
\* with the Thorlabs vendor id and one of the ten product ids 0x8080..0x8089,
\* a CCS200 that already runs its firmware (0x8089) among them.
C22_EveryFamilyDeviceListed ==
    (usb.pc = "done" /\ op = "list_spectrometers" /\ err = "none") =>
        /\ Len(ret) = Len(FamilyOf(usb.seen))
        /\ \A i \in 1..Len(usb.seen) :
              (/\ usb.seen[i].idVendor = THORLABS_VID
               /\ usb.seen[i].idProduct \in PID_RANGE_FIRST..PID_RANGE_LAST) =>
                  \E j \in 1..Len(ret) : ret[j].serial_number = usb.seen[i].serial_number

---------------------------------------------------------------------------
(* Specification of renumeration: discovery on a bus that devices may be
   pulled from at any time.                                                *)

\* a device is unplugged
Unplugged ==
    /\ usb.bus # <<>>
    /\ \E i \in 1..Len(usb.bus) :
        usb' = [usb EXCEPT !.bus = [j \in 1..(Len(usb.bus) - 1) |->
                                       IF j < i THEN usb.bus[j] ELSE usb.bus[j + 1]]]
    /\ UNCHANGED <<eeprom, data, transfers, op, args, err, ret, fw, tlccs>>

NextRenum == NextDisc \/ Unplugged

SpecRenum == InitDisc /\ [][NextRenum]_vars

\* a call in progress goes on: a transfer returns or raises, the loops turn
SpecRenumFair ==
    /\ SpecRenum
    /\ WF_vars(CtrlTransferDone \/ CtrlTransferUSBError)
    /\ WF_vars(UploadReturns)
    /\ WF_vars(WaitForDevice)
    /\ WF_vars(WaitPoll)
    /\ WF_vars(WaitTimeout)

C23_NotFoundWitness ==
    /\ usb.pc = "done"
    /\ err = "DeviceNotFound"
    /\ Len(usb.bus) < Len(usb.seen)
---------------------------------------------------------------------------
(* Specification of the amplitude correction loads: any factors in the two
   EEPROM regions, valid, never written or corrupt.                        *)

\* factors below the band, at its ends, above it, and a never-written float
AcorSamples == {0, TLCCS_AMP_CORR_FACT_MIN, FACTOR_ONE, TLCCS_AMP_CORR_FACT_MAX,
                2 * TLCCS_AMP_CORR_FACT_MAX, NaN}

\* a region of one factor throughout, and one that mixes them
AcorArrays ==
    {[i \in Pixels |-> a] : a \in AcorSamples}
        \cup {[i \in Pixels |-> IF i % 3 = 0 THEN 0
                                ELSE IF i % 3 = 1 THEN 2 * TLCCS_AMP_CORR_FACT_MAX
                                ELSE FACTOR_ONE]}

InitAcor ==
    /\ \E f \in AcorArrays, u \in AcorArrays, s1 \in AnySum, s2 \in AnySum :
           eeprom = [NoEeprom EXCEPT !.acor_factory = Region(f, s1),
                                     !.acor_user = Region(u, s2)]
    /\ data = TLCCS_DATA
    /\ transfers = <<>>
    /\ op = "none"
    /\ args = <<>>
    /\ err = "none"
    /\ ret = <<>>
    /\ fw = NoFw
    /\ tlccs = "none"
    /\ usb = NoUsb

\* get_amplitude_correction(dev, data)
GetAmplitudeCorrection ==
    \E r \in {get_amplitude_correction(eeprom, data)} :
        /\ op' = "get_amplitude_correction"
        /\ args' = <<>>
        /\ err' = r.err
        /\ ret' = <<>>
        /\ data' = r.data
        /\ UNCHANGED <<usb, eeprom, transfers, fw, tlccs>>

NextAcor == GetAmplitudeCorrection \/ Open

SpecAcor == InitAcor /\ [][NextAcor]_vars

\* a factor within [0.001, 1000.0]
InBand(a) ==
    a # NaN /\ a >= TLCCS_AMP_CORR_FACT_MIN /\ a <= TLCCS_AMP_CORR_FACT_MAX

\* C13 as claimed: in every reachable state every entry of the factory and
\* of the user amplitude-correction array lies in [0.001, 1000.0].
C13_FactorsInBand ==
    \A i \in Pixels :
        /\ InBand(data.factory_amplitude_cal.amplitude_cor[i])
        /\ InBand(data.user_amplitude_cal.amplitude_cor[i])

---------------------------------------------------------------------------
(* Specification of the dark current offsets: any two offset fields, each
   valid, never written or corrupt.                                        *)

OffsetSamples == {0, 1234, EMPTY_CHECKSUM}

InitDark ==
    /\ \E e \in OffsetSamples, o \in OffsetSamples, s1 \in AnySum, s2 \in AnySum :
           eeprom = [NoEeprom EXCEPT !.even_offset_max = Region(e, s1),
                                     !.odd_offset_max = Region(o, s2)]
    /\ data = TLCCS_DATA
    /\ transfers = <<>>
    /\ op = "none"
    /\ args = <<>>
    /\ err = "none"
    /\ ret = <<>>
    /\ fw = NoFw
    /\ tlccs = "none"
    /\ usb = NoUsb

\* get_dark_current_offset(dev, data)
GetDarkCurrentOffset ==
    /\ op' = "get_dark_current_offset"
    /\ args' = <<>>
    /\ err' = "none"
    /\ ret' = <<>>
    /\ data' = get_dark_current_offset(eeprom, data)
    /\ UNCHANGED <<usb, eeprom, transfers, fw, tlccs>>

NextDark == GetDarkCurrentOffset \/ Open

SpecDark == InitDark /\ [][NextDark]_vars

\* the stored checksum of a region is neither right nor the empty sentinel
ChecksumFails(region) == region.sum # region.crc /\ region.sum # EMPTY_CHECKSUM

\* C14: get_dark_current_offset raises nothing; each of the two offsets is
\* 0xFFFF when the checksum of its own field fails and the stored value of
\* its field otherwise, whatever happened to the other field.
C14_DarkOffsetsDefault ==
    op = "get_dark_current_offset" =>
        /\ err = "none"
        /\ data.even_offset_max = IF ChecksumFails(eeprom.even_offset_max)
                                  THEN EMPTY_CHECKSUM ELSE eeprom.even_offset_max.val
        /\ data.odd_offset_max = IF ChecksumFails(eeprom.odd_offset_max)
                                 THEN EMPTY_CHECKSUM ELSE eeprom.odd_offset_max.val

\* the even field failed its checksum and got 0xFFFF, the odd one was stored
C14_Witness ==
    /\ op = "get_dark_current_offset"
    /\ ChecksumFails(eeprom.even_offset_max)
    /\ eeprom.even_offset_max.val # EMPTY_CHECKSUM
    /\ data.even_offset_max = EMPTY_CHECKSUM
    /\ ~ChecksumFails(eeprom.odd_offset_max)
    /\ data.odd_offset_max = 1234

---------------------------------------------------------------------------
(* Specification of the wavelength requests: the calibration is built from
   any user point count, and the wavelength arrays are asked for.          *)

\* a rising and a flat factory curve
WlFactoryPolys == {<<400, 10, 0, 0>>, <<400, 0, 0, 0>>}
\* the two data sets and a number that names none
DataSetSamples == {TLCCS_CAL_DATA_SET_FACTORY, TLCCS_CAL_DATA_SET_USER, 2}

InitWl ==
    /\ \E fp \in WlFactoryPolys, up \in UserPolys, cnt \in CountSamples,
          s1 \in AnySum, s2 \in AnySum, s3 \in AnySum :
           eeprom = [NoEeprom EXCEPT
                        !.fact_cal_coef_data = Region(fp, s1),
                        !.user_cal_points_cnt = Region(cnt, s2),
                        !.user_cal_points_data = Region(PointsOf(up), s3)]
    /\ data = TLCCS_DATA
    /\ transfers = <<>>
    /\ op = "none"
    /\ args = <<>>
    /\ err = "none"
    /\ ret = <<>>
    /\ fw = NoFw
    /\ tlccs = "none"
    /\ usb = NoUsb

\* get_wavelength(data, factory_or_user)
GetWavelength ==
    \E factory_or_user \in DataSetSamples :
    \E r \in {get_wavelength(data, factory_or_user)} :
        /\ op' = "get_wavelength"
        /\ args' = <<factory_or_user>>
        /\ err' = r.err
        /\ ret' = r.wl
        /\ UNCHANGED <<usb, eeprom, data, transfers, fw, tlccs>>

NextWl == GetWavelengthParameters \/ GetWavelength

SpecWl == InitWl /\ [][NextWl]_vars

\* the count region reads as the sentinel and the factory half passes
SentinelCount ==
    /\ eeprom.user_cal_points_cnt.val = EMPTY_COUNT
    /\ ~ChecksumFails(eeprom.user_cal_points_cnt)
    /\ ~ChecksumFails(eeprom.fact_cal_coef_data)
    /\ StrictlyIncreasing(Curve(eeprom.fact_cal_coef_data.val))

\* C15: with the user point count at the sentinel 0xFFFF,
\* get_wavelength_parameters completes without error, leaves the user
\* calibration invalid and reads no user point data; every request for the
\* user data set raises InvalidUserData, every request for the factory data
\* set returns the factory array.
C15_SentinelLeavesUserInvalid ==
    SentinelCount =>
        /\ data.user_wavelength_cal.valid = 0
        /\ data.user_points = TLCCS_USER_CAL_PTS
        /\ op = "get_wavelength_parameters" =>
              /\ err = "none"
              /\ read_user_points(eeprom, TLCCS_USER_CAL_PTS).reads
                     = <<"user_cal_points_cnt">>
              /\ data.factory_wavelength_cal.wl = Curve(eeprom.fact_cal_coef_data.val)
        /\ (op = "get_wavelength" /\ args[1] = TLCCS_CAL_DATA_SET_USER) =>
              err = "InvalidUserData"
        /\ (op = "get_wavelength" /\ args[1] = TLCCS_CAL_DATA_SET_FACTORY) =>
              err = "none" /\ ret = data.factory_wavelength_cal.wl

\* the user data set was refused on a device whose factory array is built
C15_Witness ==
    /\ SentinelCount
    /\ op = "get_wavelength"
    /\ args[1] = TLCCS_CAL_DATA_SET_USER
    /\ err = "InvalidUserData"
    /\ data.factory_wavelength_cal.wl = Curve(eeprom.fact_cal_coef_data.val)

\* C16 as claimed: once get_wavelength_parameters has read the factory
\* polynomial and its expansion passed the check, the factory calibration is
\* marked valid.
C16_FactoryMarkedValid ==
    (op = "get_wavelength_parameters" /\ err = "none") =>
        data.factory_wavelength_cal.valid = 1

\* C17 as claimed: the stored user point count never exceeds
\* TLCCS_MAX_NUM_USR_ADJ.
C17_CountAtMostMax ==
    data.user_points.user_cal_node_cnt <= TLCCS_MAX_NUM_USR_ADJ

---------------------------------------------------------------------------
(* Specification of the scan methods of TLCCS: a call polls the device
   status, which the device answers as it likes, and then reads the scan.
   usb.io is the traffic of the call in progress.                          *)

\* nothing, idle, triggered, transfer, transfer and idle
StatusSamples == {0, 2, 4, TLCCS_STATUS_SCAN_TRANSFER, TLCCS_STATUS_SCAN_TRANSFER + 2}
ScanMethods == {"get_scan_data_factory", "get_scan_data_corrected_range",
                "get_scan_data_corrected_noise"}
\* scans of every dark level with all pixels at 100
PollRaws == {RawOf(dk, [i \in Pixels |-> 100]) : dk \in DarkLevels}
\* centre wavelengths on, between and beyond the points of the factory curve
CenterSamples == {400, 405, 500}
NoiseSamples == {0, 10, 31}

StatusRead(status) == [kind |-> "status", xfer |-> StatusTransfer, answer |-> status]
ScanRead(raw) == [kind |-> "bulk", xfer |-> BulkRead, answer |-> raw]

\* a scan method is entered: status = 0x0000
CallScanMethod ==
    /\ tlccs = "open"
    /\ usb.pc = "idle"
    /\ \E m \in ScanMethods :
        /\ usb' = [bus |-> <<>>, pc |-> "poll", method |-> m, status |-> 0, io |-> <<>>]
        /\ op' = m
    /\ args' = <<>>
    /\ err' = "none"
    /\ ret' = <<>>
    /\ UNCHANGED <<eeprom, data, transfers, fw, tlccs>>

\* one turn of the loop: status = get_device_status(self.dev)
PollStatus ==
    /\ usb.pc = "poll"
    /\ ScanNotReady(usb.status)
    /\ Len(usb.io) < MaxPolls
    /\ \E status \in StatusSamples :
        usb' = [usb EXCEPT !.status = status, !.io = Append(@, StatusRead(status))]
    /\ UNCHANGED <<eeprom, data, transfers, op, args, err, ret, fw, tlccs>>

\* the loop is left: return get_scan_data_factory(self.dev, self.data)
ScanFactory ==
    /\ usb.pc = "poll"
    /\ usb.method = "get_scan_data_factory"
    /\ ~ScanNotReady(usb.status)
    /\ \E raw \in PollRaws :
       \E r \in {get_scan_data_factory(data, raw)} :
        /\ usb' = [usb EXCEPT !.pc = "idle", !.io = Append(@, ScanRead(raw))]
        /\ args' = <<raw>>
        /\ err' = r.err
        /\ ret' = r.scan
    /\ UNCHANGED <<eeprom, data, transfers, op, fw, tlccs>>

\* the loop is left: return get_scan_data_corrected_range(...)
ScanCorrectedRange ==
    /\ usb.pc = "poll"
    /\ usb.method = "get_scan_data_corrected_range"
    /\ ~ScanNotReady(usb.status)
    /\ \E raw \in PollRaws, min_wl \in WlSamples, max_wl \in WlSamples :
       \E r \in {get_scan_data_corrected_range(data, min_wl, max_wl, raw)} :
        /\ usb' = [usb EXCEPT !.pc = "idle",
                              !.io = IF r.err \in {"StopIteration", "ValueError"}
                                     THEN @ ELSE Append(@, ScanRead(raw))]
        /\ args' = <<min_wl, max_wl>>
        /\ err' = r.err
        /\ ret' = IF r.err = "none"
                  THEN [scan |-> r.scan,
                        noise_amplification_mult |-> r.noise_amplification_mult]
                  ELSE <<>>
    /\ UNCHANGED <<eeprom, data, transfers, op, fw, tlccs>>

\* the loop is left: return get_scan_data_corrected_noise(...)
ScanCorrectedNoise ==
    /\ usb.pc = "poll"
    /\ usb.method = "get_scan_data_corrected_noise"
    /\ ~ScanNotReady(usb.status)
    /\ \E raw \in PollRaws, center_wl \in CenterSamples, tenths_dB \in NoiseSamples :
       \E r \in {get_scan_data_corrected_noise(data, center_wl, tenths_dB, raw)} :
        /\ usb' = [usb EXCEPT !.pc = "idle",
                              !.io = IF r.err = "StopIteration"
                                     THEN @ ELSE Append(@, ScanRead(raw))]
        /\ args' = <<center_wl, tenths_dB>>
        /\ err' = r.err
        /\ ret' = IF r.err = "none"
                  THEN [scan |-> r.scan, wavelength_left |-> r.wavelength_left,
                        wavelength_right |-> r.wavelength_right]
                  ELSE <<>>
    /\ UNCHANGED <<eeprom, data, transfers, op, fw, tlccs>>

NextPoll ==
    Open \/ CallScanMethod \/ PollStatus \/ ScanFactory \/ ScanCorrectedRange
         \/ ScanCorrectedNoise

SpecPoll == InitScan /\ [][NextPoll]_vars

\* the traffic of a call: status reads, then at most one bulk read
HasIo == usb.pc \in {"poll", "idle"} /\ "io" \in DOMAIN usb

\* C18: in the three scan methods of TLCCS the bulk read of the pixel data
\* comes only right after a status read that had the scan-transfer bit
\* 0x0010 set, and a call whose status reads all had the bit clear goes on
\* polling without a bulk read.
C18_BulkReadAfterTransferBit ==
    /\ [](HasIo =>
            /\ \A i \in 1..Len(usb.io) :
                  usb.io[i].kind = "bulk" =>
                      /\ i > 1
                      /\ usb.io[i - 1].kind = "status"
                      /\ BitAnd(usb.io[i - 1].answer, TLCCS_STATUS_SCAN_TRANSFER)
                             = TLCCS_STATUS_SCAN_TRANSFER
            /\ (\A i \in 1..Len(usb.io) :
                   usb.io[i].kind = "status"
                   /\ BitAnd(usb.io[i].answer, TLCCS_STATUS_SCAN_TRANSFER) = 0) =>
                  usb.pc = "poll")
    /\ [][(HasIo /\ usb.pc = "poll"
             /\ BitAnd(usb.status, TLCCS_STATUS_SCAN_TRANSFER) = 0) =>
              /\ usb'.pc = "poll"
              /\ usb'.io = Append(usb.io, StatusRead(usb'.status))]_vars

\* the noise-corrected method read a scan after status reads with the bit clear
C18_Witness ==
    /\ HasIo
    /\ usb.pc = "idle"
    /\ usb.method = "get_scan_data_corrected_noise"
    /\ Len(usb.io) = MaxPolls + 1
    /\ usb.io[MaxPolls + 1].kind = "bulk"
    /\ usb.io[1].answer = 4
    /\ err = "none"

---------------------------------------------------------------------------
(* Specification of the chunked readers: read_EEPROM_wo_CRC and read_RAM
   turn by turn, against a device that may answer a transfer with fewer
   bytes than were asked for, but with at least one.                       *)

\* a chunk length that is always the full transfer size
ChunkLengthMutant(length) == ENDPOINT_0_TRANSFERSIZE

\* chunk_length for the bytes still to read
ChunkLength(length) ==
    IF length >= ENDPOINT_0_TRANSFERSIZE THEN ENDPOINT_0_TRANSFERSIZE ELSE length

\* the byte the device holds at an address
DeviceByte(a) == ((a * 37) + 11) % 256
\* the device's answer of n bytes from chunk_address on
DeviceChunk(chunk_address, n) == [i \in 1..n |-> DeviceByte(chunk_address + i - 1)]
\* the lengths an answer to a request of chunk_length bytes may have
AnswerLengths(chunk_length) ==
    {n \in {1, chunk_length \div 2, chunk_length - 1, chunk_length} : n >= 1}

ReadRequests == {TLCCS_RCMD_READ_EEPROM, TLCCS_RCMD_READ_RAM}
StartSamples == {0, 1000}
LengthSamples ==
    {0, 1, 2, ENDPOINT_0_TRANSFERSIZE - 1, ENDPOINT_0_TRANSFERSIZE,
     ENDPOINT_0_TRANSFERSIZE + 1, (MaxChunks * ENDPOINT_0_TRANSFERSIZE) + 1}

InitChunk ==
    /\ eeprom = NoEeprom
    /\ data = TLCCS_DATA
    /\ transfers = <<>>
    /\ op = "none"
    /\ args = <<>>
    /\ err = "none"
    /\ ret = <<>>
    /\ fw = NoFw
    /\ tlccs = "none"
    /\ usb = NoUsb

\* read_EEPROM_wo_CRC / read_RAM is entered: data = array('B'),
\* chunk_address = address
ReadChunked ==
    /\ usb.pc \in {"idle", "returned"}
    /\ \E bRequest \in ReadRequests, address \in StartSamples, length \in LengthSamples :
        /\ usb' = [bus |-> <<>>, pc |-> "chunks", bRequest |-> bRequest,
                   data |-> <<>>, chunk_address |-> address, length |-> length,
                   last |-> <<>>]
        /\ op' = IF bRequest = TLCCS_RCMD_READ_EEPROM THEN "read_EEPROM_wo_CRC"
                 ELSE "read_RAM"
        /\ args' = <<address, 0, length>>
    /\ err' = "none"
    /\ ret' = <<>>
    /\ UNCHANGED <<eeprom, data, transfers, fw, tlccs>>

\* one turn of while (length > 0)
ChunkTransfer ==
    /\ usb.pc = "chunks"
    /\ usb.length > 0
    /\ \E chunk_length \in {ChunkLength(usb.length)} :
       \E n \in AnswerLengths(chunk_length) :
       \E chunk \in {DeviceChunk(usb.chunk_address, n)} :
        usb' = [usb EXCEPT
                   !.last = <<[bmRequestType |-> CONTROL_TRANSFER_IN_ZERO,
                               bRequest |-> usb.bRequest,
                               wValue |-> usb.chunk_address, wIndex |-> args[2],
                               data_or_wLength |-> chunk_length]>>,
                   !.data = @ \o chunk,
                   !.length = @ - Len(chunk),
                   !.chunk_address = @ + Len(chunk)]
    /\ UNCHANGED <<eeprom, data, transfers, op, args, err, ret, fw, tlccs>>

\* the loop is left: return data
ReadChunkedReturns ==
    /\ usb.pc = "chunks"
    /\ ~(usb.length > 0)
    /\ usb' = [usb EXCEPT !.pc = "returned"]
    /\ ret' = usb.data
    /\ UNCHANGED <<eeprom, data, transfers, op, args, err, fw, tlccs>>

NextChunk == ReadChunked \/ ChunkTransfer \/ ReadChunkedReturns

SpecChunk == InitChunk /\ [][NextChunk]_vars

\* the loop of a reader is not left waiting
SpecChunkFair == SpecChunk /\ WF_vars(ChunkTransfer) /\ WF_vars(ReadChunkedReturns)

\* C19: read_EEPROM_wo_CRC and read_RAM ask in every transfer for at most
\* 64 bytes and never for more than are still missing, at the address start
\* plus the bytes received so far, and they return exactly `length` bytes in
\* the device's order, whenever every transfer returns at least one byte.
C19_ChunkedReadExact ==
    /\ [][(usb.pc = "chunks" /\ usb'.pc = "chunks" /\ usb'.last # usb.last) =>
              /\ usb'.last[1].data_or_wLength <= ENDPOINT_0_TRANSFERSIZE
              /\ usb'.last[1].data_or_wLength <= args[3] - Len(usb.data)
              /\ usb'.last[1].wValue = args[1] + Len(usb.data)
              /\ usb'.last[1].bRequest = usb.bRequest]_vars
    /\ [](usb.pc = "chunks" =>
              usb.data = DeviceChunk(args[1], Len(usb.data)))
    /\ [](usb.pc = "returned" =>
              /\ Len(ret) = args[3]
              /\ ret = DeviceChunk(args[1], args[3]))
    /\ (usb.pc = "chunks") ~> (usb.pc = "returned")

\* the longest read returned, its last transfer asking for the two bytes that
\* short answers had left missing
C19_Witness ==
    /\ usb.pc = "returned"
    /\ op = "read_RAM"
    /\ args[3] = (MaxChunks * ENDPOINT_0_TRANSFERSIZE) + 1
    /\ Len(ret) = args[3]
    /\ usb.last[1].data_or_wLength = 2

---------------------------------------------------------------------------
(* The firmware file parser, byte by byte. Offsets are the source's, from
   0; a buffer is a sequence, so the byte at offset k is buf[k + 1].       *)

\* b'CSPT'
CSPT == <<67, 83, 80, 84>>
SPT_HEADER_SZ == 32

\* buf[a:b]
Slice(buf, a, b) ==
    LET hi == IF b < Len(buf) THEN b ELSE Len(buf)
    IN  IF a >= hi THEN <<>> ELSE [i \in 1..(hi - a) |-> buf[a + i]]

\* a 16-bit read that takes the first byte as the high one
unpack_from_HMutant(buf, offset) == (256 * buf[offset + 1]) + buf[offset + 2]

\* struct.unpack_from("<H", buf, offset)[0]
unpack_from_H(buf, offset) == buf[offset + 1] + (256 * buf[offset + 2])

\* struct.unpack_from("<I", buf, offset)[0]
unpack_from_I(buf, offset) ==
    buf[offset + 1] + (256 * buf[offset + 2]) + (65536 * buf[offset + 3])
        + (16777216 * buf[offset + 4])

\* the while loop of parse_spt from offset on: [records, err]
RECURSIVE parse_spt_from(_, _, _)
parse_spt_from(bytes, offset, records) ==
    IF ~(offset < Len(bytes)) THEN [records |-> records, err |-> "none"]
    ELSE IF Slice(bytes, offset, offset + 4) # CSPT
    THEN parse_spt_from(bytes, offset + 1, records)
    ELSE IF offset + 8 > Len(bytes) THEN [records |-> <<>>, err |-> "struct.error"]
    ELSE LET block_len == unpack_from_I(bytes, offset + 4)
             block     == Slice(bytes, offset, offset + block_len)
         IN  IF offset + block_len > Len(bytes)
             THEN [records |-> records, err |-> "none"]
             ELSE IF Len(block) <= 16 THEN [records |-> <<>>, err |-> "IndexError"]
             ELSE IF Len(block) < 30 THEN [records |-> <<>>, err |-> "struct.error"]
             ELSE LET wLength == unpack_from_H(block, 28)
                      record  == [bRequest |-> block[16 + 1],
                                  wValue   |-> unpack_from_H(block, 18),
                                  wIndex   |-> unpack_from_H(block, 20),
                                  wLength  |-> wLength,
                                  data     |-> Slice(block, 32, 32 + wLength)]
                  IN  parse_spt_from(bytes, offset + block_len, Append(records, record))

parse_spt(bytes) == parse_spt_from(bytes, 0, <<>>)

---------------------------------------------------------------------------
(* Specification of the parser: firmware files of well-formed blocks are
   parsed.                                                                 *)

\* a byte of the header that no field uses
FILLER == 170

\* a well-formed block: the header, the payload and pad bytes after it
SptBlock(bRequest, wValue, wIndex, payload, pad) ==
    LET block_len == SPT_HEADER_SZ + Len(payload) + pad
        header == [k \in 1..SPT_HEADER_SZ |->
                     IF k <= 4 THEN CSPT[k]
                     ELSE IF k = 5 THEN LoByte(block_len)
                     ELSE IF k = 6 THEN HiByte(block_len)
                     ELSE IF k \in {7, 8} THEN 0
                     ELSE IF k = 17 THEN bRequest
                     ELSE IF k = 19 THEN LoByte(wValue)
                     ELSE IF k = 20 THEN HiByte(wValue)
                     ELSE IF k = 21 THEN LoByte(wIndex)
                     ELSE IF k = 22 THEN HiByte(wIndex)
                     ELSE IF k = 29 THEN LoByte(Len(payload))
                     ELSE IF k = 30 THEN HiByte(Len(payload))
                     ELSE FILLER]
    IN  header \o payload \o [k \in 1..pad |-> FILLER]

\* no payload, one byte, and a payload that holds the magic itself
PayloadSamples == {<<>>, <<7>>, CSPT \o <<SPT_HEADER_SZ, 0, 0, 0, 1>>}
\* the firmware load request 0xA0 and another
RequestSamples == {160, 1}
\* the CPUCS register 0xE600 and address 0
ValueSamples == {58880, 0}
PadSamples == {0, 3}
SptBlocks ==
    {SptBlock(q, v, 258, p, pad) :
        q \in RequestSamples, v \in ValueSamples, p \in PayloadSamples, pad \in PadSamples}

RECURSIVE Concat(_)
Concat(blocks) ==
    IF blocks = <<>> THEN <<>> ELSE Head(blocks) \o Concat(Tail(blocks))

SptFiles == UNION {[1..n -> SptBlocks] : n \in 0..MaxBlocks}

\* a firmware file on disk: fw.file its bytes, fw.lens the lengths of its blocks
InitSpt ==
    /\ eeprom = NoEeprom
    /\ data = TLCCS_DATA
    /\ transfers = <<>>
    /\ op = "none"
    /\ args = <<>>
    /\ err = "none"
    /\ ret = <<>>
    /\ \E blocks \in SptFiles :
           fw = [pc |-> "idle", records |-> <<>>, i |-> 0, printed |-> <<>>,
                 file |-> Concat(blocks),
                 lens |-> [k \in 1..Len(blocks) |-> Len(blocks[k])]]
    /\ tlccs = "none"
    /\ usb = NoUsb

\* parse_spt(filename)
ParseSpt ==
    /\ \E r \in {parse_spt(fw.file)} :
        /\ op' = "parse_spt"
        /\ err' = r.err
        /\ ret' = r.records
    /\ UNCHANGED <<usb, eeprom, data, transfers, args, fw, tlccs>>

NextSpt == ParseSpt

SpecSpt == InitSpt /\ [][NextSpt]_vars

\* the offset in the file of block k, for blocks of the lengths lens
RECURSIVE BlockStart(_, _)
BlockStart(lens, k) == IF k = 1 THEN 0 ELSE BlockStart(lens, k - 1) + lens[k - 1]

\* C20: from a file that is a concatenation of well-formed blocks parse_spt
\* returns one record per block in file order, with bRequest the byte at
\* block offset 16, wValue, wIndex and wLength the little-endian 16-bit
\* values at offsets 18, 20 and 28, and data the wLength bytes from offset 32.
C20_OneRecordPerBlock ==
    op = "parse_spt" =>
        /\ err = "none"
        /\ Len(ret) = Len(fw.lens)
        /\ \A k \in 1..Len(fw.lens) :
              LET at(o) == fw.file[BlockStart(fw.lens, k) + o + 1]
              IN  /\ ret[k].bRequest = at(16)
                  /\ ret[k].wValue = at(18) + (256 * at(19))
                  /\ ret[k].wIndex = at(20) + (256 * at(21))
                  /\ ret[k].wLength = at(28) + (256 * at(29))
                  /\ Len(ret[k].data) = ret[k].wLength
                  /\ \A i \in 1..ret[k].wLength : ret[k].data[i] = at(32 + i - 1)

\* a file of MaxBlocks blocks was parsed: the first padded and with the magic
\* in its payload, the last for the register 0xE600
C20_Witness ==
    /\ op = "parse_spt"
    /\ Len(ret) = MaxBlocks
    /\ Slice(ret[1].data, 0, 4) = CSPT
    /\ fw.lens[1] > SPT_HEADER_SZ + ret[1].wLength
    /\ ret[MaxBlocks].wValue = 58880
    /\ ret[MaxBlocks].wIndex = 258

---------------------------------------------------------------------------
(* Specification of the window search: find_centered_range, one iteration
   of its loop a step, on the user amplitude factors of an opened device.  *)

\* factors 1.0, 1.5 and 2.0
RangeFactors == {FACTOR_ONE, 1500, 2 * FACTOR_ONE}
\* thresholds 1.0, 1.259 (1 dB), 2.042 (3.1 dB) and 4.0, in thousandths
ThresholdSamples == {FACTOR_ONE, 1259, 2042, 4 * FACTOR_ONE}

InitRange ==
    /\ \E uf \in [Pixels -> RangeFactors] :
           eeprom = [NoEeprom EXCEPT !.acor_user = Region(uf, REGION_CRC)]
    /\ data = TLCCS_DATA
    /\ transfers = <<>>
    /\ op = "none"
    /\ args = <<>>
    /\ err = "none"
    /\ ret = <<>>
    /\ fw = NoFw
    /\ tlccs = "none"
    /\ usb = NoUsb

\* find_centered_range(arr, center, threshold) is entered
FindCenteredRange ==
    /\ tlccs = "open"
    /\ usb.pc \in {"idle", "returned"}
    /\ \E center \in Pixels, threshold \in ThresholdSamples :
       \E arr \in {data.user_amplitude_cal.amplitude_cor} :
        /\ usb' = [bus |-> <<>>, pc |-> "range", left |-> center, right |-> center,
                   min_val |-> arr[center], max_val |-> arr[center], iterations |-> 0]
        /\ args' = <<arr, center, threshold>>
    /\ op' = "find_centered_range"
    /\ err' = "none"
    /\ ret' = <<>>
    /\ UNCHANGED <<eeprom, data, transfers, fw, tlccs>>

\* an iteration of the loop that expands the window
RangeExpands ==
    /\ usb.pc = "range"
    /\ \E s \in {find_centered_step(args[1], usb.left, usb.right, usb.min_val,
                                    usb.max_val, args[3])} :
        /\ s.expanded
        /\ usb' = [usb EXCEPT !.left = s.left, !.right = s.right,
                              !.min_val = s.min_val, !.max_val = s.max_val,
                              !.iterations = @ + 1]
    /\ UNCHANGED <<eeprom, data, transfers, op, args, err, ret, fw, tlccs>>

\* an iteration that does not expand: break, return left, right, min_val, max_val
RangeReturns ==
    /\ usb.pc = "range"
    /\ \E s \in {find_centered_step(args[1], usb.left, usb.right, usb.min_val,
                                    usb.max_val, args[3])} :
        /\ ~s.expanded
        /\ usb' = [usb EXCEPT !.pc = "returned", !.iterations = @ + 1]
        /\ ret' = <<usb.left, usb.right, usb.min_val, usb.max_val>>
    /\ UNCHANGED <<eeprom, data, transfers, op, args, err, fw, tlccs>>

NextRange == Open \/ FindCenteredRange \/ RangeExpands \/ RangeReturns

SpecRange == InitRange /\ [][NextRange]_vars

\* the loop goes on while the call is in it
SpecRangeFair == SpecRange /\ WF_vars(RangeExpands) /\ WF_vars(RangeReturns)

\* the call of find_centered_range in progress or returned
InRangeCall == usb.pc \in {"range", "returned"}
\* v is the least (greatest) of arr[left..right]
LeastOf(arr, left, right, v) ==
    /\ \E i \in left..right : arr[i] = v
    /\ \A i \in left..right : v <= arr[i]
GreatestOf(arr, left, right, v) ==
    /\ \E i \in left..right : arr[i] = v
    /\ \A i \in left..right : v >= arr[i]
\* max / min of arr[left..right] is within the threshold (in thousandths)
RatioWithin(arr, left, right, threshold) ==
    \A i \in left..right, j \in left..right :
        arr[i] * FACTOR_ONE <= threshold * arr[j]

\* C24: for positive factors, every centre index and every threshold >= 1
\* the window of find_centered_range holds the centre, min_val and max_val
\* are the minimum and the maximum of arr[left..right], and max_val / min_val
\* is within the threshold, after every expansion and on return.
C24_WindowInvariant ==
    InRangeCall =>
        /\ 0 <= usb.left /\ usb.left <= args[2]
        /\ args[2] <= usb.right /\ usb.right <= TLCCS_NUM_PIXELS - 1
        /\ LeastOf(args[1], usb.left, usb.right, usb.min_val)
        /\ GreatestOf(args[1], usb.left, usb.right, usb.max_val)
        /\ RatioWithin(args[1], usb.left, usb.right, args[3])
        /\ usb.pc = "returned" =>
              ret = <<usb.left, usb.right, usb.min_val, usb.max_val>>

\* the window grew on both sides at once, over unequal factors, and returned
C24_Witness ==
    /\ usb.pc = "returned"
    /\ usb.iterations = 2
    /\ usb.left = 0
    /\ usb.right = 2
    /\ usb.min_val < usb.max_val

\* C25: find_centered_range returns after at most len(arr) iterations; every
\* iteration that does not stop grows the window by at least one pixel; the
\* returned window is maximal: neither the pixel left of it nor the pixel
\* right of it, where there is one, could be added within the threshold.
C25_TerminatesMaximal ==
    /\ [](InRangeCall => usb.iterations <= TLCCS_NUM_PIXELS)
    /\ [][(usb.pc = "range" /\ usb'.pc = "range") =>
            /\ usb'.left <= usb.left
            /\ usb'.right >= usb.right
            /\ usb'.right - usb'.left >= (usb.right - usb.left) + 1
            /\ usb'.iterations = usb.iterations + 1]_vars
    /\ [](usb.pc = "returned" =>
            /\ ret[1] > 0 => ~RatioWithin(args[1], ret[1] - 1, ret[2], args[3])
            /\ ret[2] < TLCCS_NUM_PIXELS - 1 =>
                  ~RatioWithin(args[1], ret[1], ret[2] + 1, args[3]))
    /\ (usb.pc = "range") ~> (usb.pc = "returned")

\* a window that could grow to the right only, and stopped short of the left end
C25_Witness ==
    /\ usb.pc = "returned"
    /\ ret[1] = args[2]
    /\ ret[1] > 0
    /\ ret[2] > args[2]

---------------------------------------------------------------------------
(* Specification of the parser's loop: parse_spt, one iteration a step, on
   files of well-formed and malformed pieces.                              *)

\* one iteration of the while loop of parse_spt at offset < len(data):
\* [offset, records, pc, err]; pc is "parse" to go on, "returned" after the
\* break, "raised" when the iteration raises
parse_spt_step(bytes, offset, records) ==
    LET goes(o, recs) == [offset |-> o, records |-> recs, pc |-> "parse", err |-> "none"]
        raises(e) == [offset |-> offset, records |-> records, pc |-> "raised", err |-> e]
    IN  IF Slice(bytes, offset, offset + 4) # CSPT THEN goes(offset + 1, records)
        ELSE IF offset + 8 > Len(bytes) THEN raises("struct.error")
        ELSE LET block_len == unpack_from_I(bytes, offset + 4)
                 block     == Slice(bytes, offset, offset + block_len)
             IN  IF offset + block_len > Len(bytes)
                 THEN [offset |-> offset, records |-> records, pc |-> "returned",
                       err |-> "none"]
                 ELSE IF Len(block) <= 16 THEN raises("IndexError")
                 ELSE IF Len(block) < 30 THEN raises("struct.error")
                 ELSE LET wLength == unpack_from_H(block, 28)
                          record  == [bRequest |-> block[16 + 1],
                                      wValue   |-> unpack_from_H(block, 18),
                                      wIndex   |-> unpack_from_H(block, 20),
                                      wLength  |-> wLength,
                                      data     |-> Slice(block, 32, 32 + wLength)]
                      IN  goes(offset + block_len, Append(records, record))

\* a header that declares block_len, with n bytes after the length field
SptStub(block_len, n) ==
    CSPT \o <<LoByte(block_len), HiByte(block_len), 0, 0>> \o [k \in 1..n |-> FILLER]

\* a well-formed block, bytes without the magic, a block of length 0, one
\* shorter than its fields, one that runs past the end of the file, and a
\* magic cut off by the end of the file
SptPieces ==
    {SptBlock(160, 58880, 258, <<7>>, 0), <<1, 67>>, SptStub(0, 0), SptStub(20, 12),
     SptStub(200, 2), CSPT}

SptAnyFiles == UNION {[1..n -> SptPieces] : n \in 0..MaxBlocks}

InitSptLoop ==
    /\ eeprom = NoEeprom
    /\ data = TLCCS_DATA
    /\ transfers = <<>>
    /\ op = "none"
    /\ args = <<>>
    /\ err = "none"
    /\ ret = <<>>
    /\ \E pieces \in SptAnyFiles :
           fw = [pc |-> "idle", records |-> <<>>, i |-> 0, printed |-> <<>>,
                 file |-> Concat(pieces), offset |-> 0, iterations |-> 0]
    /\ tlccs = "none"
    /\ usb = NoUsb

\* parse_spt(filename) is entered: records = [], offset = 0
ParseSptEnter ==
    /\ fw.pc = "idle"
    /\ fw' = [fw EXCEPT !.pc = "parse", !.offset = 0, !.records = <<>>]
    /\ op' = "parse_spt"
    /\ err' = "none"
    /\ ret' = <<>>
    /\ UNCHANGED <<usb, eeprom, data, transfers, args, tlccs>>

\* one iteration of while offset < len(data)
ParseSptIteration ==
    /\ fw.pc = "parse"
    /\ fw.offset < Len(fw.file)
    /\ \E r \in {parse_spt_step(fw.file, fw.offset, fw.records)} :
        /\ fw' = [fw EXCEPT !.pc = r.pc, !.offset = r.offset, !.records = r.records,
                            !.iterations = @ + 1]
        /\ err' = r.err
        /\ ret' = IF r.pc = "returned" THEN r.records ELSE ret
    /\ UNCHANGED <<usb, eeprom, data, transfers, op, args, tlccs>>

\* the loop condition fails: return records
ParseSptReturns ==
    /\ fw.pc = "parse"
    /\ ~(fw.offset < Len(fw.file))
    /\ fw' = [fw EXCEPT !.pc = "returned"]
    /\ ret' = fw.records
    /\ UNCHANGED <<usb, eeprom, data, transfers, op, args, err, tlccs>>

NextSptLoop == ParseSptEnter \/ ParseSptIteration \/ ParseSptReturns

SpecSptLoop == InitSptLoop /\ [][NextSptLoop]_vars

\* the block at the offset overruns the file
Overruns(bytes, offset) ==
    /\ Slice(bytes, offset, offset + 4) = CSPT
    /\ offset + 8 <= Len(bytes)
    /\ offset + unpack_from_I(bytes, offset + 4) > Len(bytes)

\* C26 as claimed: every iteration of parse_spt's loop moves the offset
\* forward, also at a block whose length field is 0 or below the header's
\* size, except that a block running past the end of the file ends the parse
\* with the records parsed before it; so the parse returns for every input.
C26_OffsetAlwaysAdvances ==
    /\ [][(fw.pc = "parse" /\ fw.offset < Len(fw.file)) =>
            \/ fw'.pc = "parse" /\ fw'.offset > fw.offset
            \/ /\ Overruns(fw.file, fw.offset)
               /\ fw'.pc = "returned"
               /\ ret' = fw.records]_vars
    /\ [](fw.pc # "raised")

---------------------------------------------------------------------------
(* Specification of the TLCCS object: it is constructed on a device, its
   methods and the scan functions are called on its handle and its
   DeviceState, and it is closed.  usb.dev is self.dev ("None" once it is
   discarded), data is self.data (NoData once it is discarded), transfers
   is every control and bulk transfer sent, and tlccs is "closed" once a
   close() has completed.                                                  *)

\* self.data = None
NoData == [discarded |-> TRUE]

\* the ctrl_transfer of start_continuous_scan
StartContinuousTransfer ==
    [bmRequestType |-> CONTROL_TRANSFER_OUT, bRequest |-> TLCCS_WCMD_MODUS,
     wValue |-> MODUS_INTERN_CONTINUOUS, wIndex |-> 0, data_or_wLength |-> 0]

\* the ctrl_transfer of reset_device
ResetTransfer ==
    [bmRequestType |-> CONTROL_TRANSFER_OUT, bRequest |-> TLCCS_WCMD_RESET,
     wValue |-> 0, wIndex |-> 0, data_or_wLength |-> 0]

\* the ctrl_transfer of get_integration_time
GetIntegrationTimeTransfer ==
    [bmRequestType |-> CONTROL_TRANSFER_IN_ZERO, bRequest |-> TLCCS_WCMD_INTEGRATION_TIME,
     wValue |-> 0, wIndex |-> 0, data_or_wLength |-> TLCCS_NUM_INTEG_CTRL_BYTES]

\* dev.ctrl_transfer(...) and dev.read(...): None has neither attribute
send(dev, xfers) ==
    IF dev = "None" THEN [err |-> "AttributeError", xfers |-> <<>>]
    ELSE [err |-> "none", xfers |-> xfers]

\* a scan function that scales an array of the DeviceState in place
scan_dataMutant(d, scan) ==
    IF d = NoData \/ scan = <<>> THEN d
    ELSE [d EXCEPT !.factory_amplitude_cal.amplitude_cor =
                       [i \in Pixels |-> (scan[i][1] * FACTOR_ONE) \div scan[i][2]]]

\* the DeviceState a scan function leaves: scan_data is the array that
\* get_scan_data allocates, and no other array is written
scan_data(d, scan) == d

\* a close() that keeps the handle and the DeviceState
closeMutant(dev, d, usb_ok) ==
    IF dev = "None" THEN [err |-> "AttributeError", xfers |-> <<>>, dev |-> dev, data |-> d]
    ELSE IF ~usb_ok THEN [err |-> "USBError", xfers |-> <<>>, dev |-> dev, data |-> d]
    ELSE [err |-> "none", xfers |-> <<ResetTransfer>>, dev |-> dev, data |-> d]

\* TLCCS.close: [err, xfers, dev, data]; a transfer that raises USBError
\* leaves close() before anything is discarded
close(dev, d, usb_ok) ==
    IF dev = "None" THEN [err |-> "AttributeError", xfers |-> <<>>, dev |-> dev, data |-> d]
    ELSE IF ~usb_ok THEN [err |-> "USBError", xfers |-> <<>>, dev |-> dev, data |-> d]
    ELSE [err |-> "none", xfers |-> <<ResetTransfer>>, dev |-> "None", data |-> NoData]

\* the status loop of the scan methods, then the scan function m:
\* [err, ret, xfers, data]
scan_method(m, dev, d, in) ==
    LET poll == send(dev, [k \in 1..Len(in.statuses) |-> StatusTransfer])
        bulk == send(dev, <<BulkRead>>)
        r == IF d = NoData THEN [scan |-> <<>>, err |-> "AttributeError"]
             ELSE IF m = "get_scan_data" THEN get_scan_data(in.raw)
             ELSE IF m = "get_scan_data_factory" THEN get_scan_data_factory(d, in.raw)
             ELSE IF m = "get_scan_data_corrected_range"
             THEN get_scan_data_corrected_range(d, in.min_wl, in.max_wl, in.raw)
             ELSE get_scan_data_corrected_noise(d, in.center_wl, in.tenths_dB, in.raw)
        \* raised before dev.read is reached
        early == IF m = "get_scan_data_corrected_range"
                 THEN r.err \in {"StopIteration", "ValueError"}
                 ELSE m = "get_scan_data_corrected_noise" /\ r.err = "StopIteration"
    IN  IF poll.err # "none"
        THEN [err |-> poll.err, ret |-> <<>>, xfers |-> <<>>, data |-> d]
        ELSE IF d # NoData /\ early
        THEN [err |-> r.err, ret |-> <<>>, xfers |-> poll.xfers, data |-> d]
        ELSE IF bulk.err # "none"
        THEN [err |-> bulk.err, ret |-> <<>>, xfers |-> poll.xfers, data |-> d]
        ELSE [err |-> r.err, ret |-> r.scan, xfers |-> poll.xfers \o bulk.xfers,
              data |-> scan_data(d, r.scan)]

\* one call on the object: [err, ret, xfers, dev, data]
TLCCS_call(m, dev, d, in) ==
    LET res(e, r, x) == [err |-> e, ret |-> r, xfers |-> x, dev |-> dev, data |-> d]
        one(x) == res(send(dev, <<x>>).err, <<>>, send(dev, <<x>>).xfers)
    IN  CASE m = "start_single_scan" -> one(StartScanTransfer)
          [] m = "start_continuous_scan" -> one(StartContinuousTransfer)
          [] m = "reset" -> one(ResetTransfer)
          [] m = "get_device_status" ->
                LET s == send(dev, <<StatusTransfer>>)
                IN  res(s.err, IF s.err = "none" THEN <<in.statuses[1]>> ELSE <<>>, s.xfers)
          [] m = "set_integration_time" ->
                LET t == set_integration_time(in.t)
                    s == send(dev, t.xfers)
                IN  IF t.err # "none" THEN res(t.err, <<>>, <<>>)
                    ELSE res(s.err, <<>>, s.xfers)
          [] m = "get_integration_time" ->
                LET s == send(dev, <<GetIntegrationTimeTransfer>>)
                IN  res(s.err,
                        IF s.err = "none"
                        THEN <<decode_integration_time(encode_integration_time(in.t).data)>>
                        ELSE <<>>,
                        s.xfers)
          [] m = "get_wavelength" ->
                IF d = NoData THEN res("AttributeError", <<>>, <<>>)
                ELSE LET w == get_wavelength(d, in.factory_or_user)
                     IN  res(w.err, w.wl, <<>>)
          [] m \in {"close", "__exit__"} ->
                LET c == close(dev, d, in.usb_ok)
                IN  [err |-> c.err, ret |-> <<>>, xfers |-> c.xfers, dev |-> c.dev,
                     data |-> c.data]
          [] m = "__enter__" -> res("none", <<>>, <<>>)
          [] OTHER ->
                LET s == scan_method(m, dev, d, in)
                IN  [err |-> s.err, ret |-> s.ret, xfers |-> s.xfers, dev |-> dev,
                     data |-> s.data]

\* the status reads of one loop: the transfer bit is set in the last one only
PollSeqs == {<<TLCCS_STATUS_SCAN_TRANSFER>>, <<2, TLCCS_STATUS_SCAN_TRANSFER + 2>>}
\* a dim scan and a saturated one
CallRaws == {RawOf(dk, [i \in Pixels |-> 100]) : dk \in {<<100, 100>>, <<MAX_ADC_VALUE, MAX_ADC_VALUE>>}}

NoInput ==
    [t |-> TLCCS_DEF_INT_TIME, statuses |-> <<>>, raw |-> <<>>, min_wl |-> 0, max_wl |-> 0,
     center_wl |-> 0, tenths_dB |-> 0, factory_or_user |-> 0, usb_ok |-> TRUE]

\* the functions and methods called, and the arguments and device answers of each
Inputs(m) ==
    CASE m = "set_integration_time" ->
            {[NoInput EXCEPT !.t = t] : t \in {9, 5000, 60000000}}
      [] m = "get_integration_time" ->
            {[NoInput EXCEPT !.t = t] : t \in {5000, 60000000}}
      [] m = "get_device_status" ->
            {[NoInput EXCEPT !.statuses = <<s>>] : s \in {0, TLCCS_STATUS_SCAN_TRANSFER}}
      [] m = "get_scan_data" ->
            {[NoInput EXCEPT !.raw = raw] : raw \in CallRaws}
      [] m = "get_scan_data_factory" ->
            {[NoInput EXCEPT !.statuses = p, !.raw = raw] : p \in PollSeqs, raw \in CallRaws}
      [] m = "get_scan_data_corrected_range" ->
            {[NoInput EXCEPT !.statuses = <<TLCCS_STATUS_SCAN_TRANSFER>>, !.raw = raw,
                             !.min_wl = 401, !.max_wl = x] :
                 raw \in CallRaws, x \in {415, 500}}
      [] m = "get_scan_data_corrected_noise" ->
            {[NoInput EXCEPT !.statuses = <<TLCCS_STATUS_SCAN_TRANSFER>>, !.raw = raw,
                             !.center_wl = c, !.tenths_dB = 10] :
                 raw \in CallRaws, c \in {405, 500}}
      [] m = "get_wavelength" ->
            {[NoInput EXCEPT !.factory_or_user = k] : k \in DataSetSamples}
      [] m \in {"close", "__exit__"} ->
            {[NoInput EXCEPT !.usb_ok = b] : b \in BOOLEAN}
      [] OTHER -> {NoInput}

ScanOperations ==
    {"start_single_scan", "start_continuous_scan", "get_device_status", "get_scan_data",
     "get_scan_data_factory", "get_scan_data_corrected_range",
     "get_scan_data_corrected_noise"}

Operations ==
    ScanOperations \cup {"set_integration_time", "get_integration_time", "get_wavelength",
                         "reset", "close", "__enter__", "__exit__"}

InitTLCCS ==
    /\ \E uf \in {[i \in Pixels |-> FACTOR_ONE], [i \in Pixels |-> (1 + (i % 2)) * FACTOR_ONE]} :
           eeprom = [NoEeprom EXCEPT !.acor_user = Region(uf, REGION_CRC)]
    /\ data = NoData
    /\ transfers = <<>>
    /\ op = "none"
    /\ args = <<>>
    /\ err = "none"
    /\ ret = <<>>
    /\ fw = NoFw
    /\ tlccs = "none"
    /\ usb = [bus |-> <<>>, pc |-> "idle", dev |-> "None", calls |-> 0]

\* TLCCS.__init__: the device is found, self.data = TLCCS_DATA() and
\* initialize(self.dev, self.data)
TLCCS_init ==
    /\ tlccs = "none"
    /\ \E r \in {initialize(eeprom, TLCCS_DATA)} :
        /\ op' = "__init__"
        /\ args' = <<>>
        /\ err' = r.err
        /\ ret' = <<>>
        /\ data' = r.data
        /\ transfers' = transfers \o r.xfers
        /\ tlccs' = "open"
        /\ usb' = [usb EXCEPT !.dev = "dev"]
        /\ UNCHANGED <<eeprom, fw>>

\* one function or method is called with self.dev and self.data
Call ==
    /\ tlccs \in {"open", "closed"}
    /\ usb.calls < MaxCalls
    /\ \E m \in Operations :
       \E in \in Inputs(m) :
       \E r \in {TLCCS_call(m, usb.dev, data, in)} :
        /\ op' = m
        /\ args' = <<in>>
        /\ err' = r.err
        /\ ret' = r.ret
        /\ data' = r.data
        /\ transfers' = transfers \o r.xfers
        /\ usb' = [usb EXCEPT !.dev = r.dev, !.calls = @ + 1]
        /\ tlccs' = IF m \in {"close", "__exit__"} /\ r.err = "none" THEN "closed" ELSE tlccs
        /\ UNCHANGED <<eeprom, fw>>

NextTLCCS == TLCCS_init \/ Call

SpecTLCCS == InitTLCCS /\ [][NextTLCCS]_vars

\* C27: no scan operation, whether it returns or raises, changes a field of
\* the DeviceState: start_single_scan, start_continuous_scan,
\* get_device_status, get_scan_data, get_scan_data_factory,
\* get_scan_data_corrected_range and get_scan_data_corrected_noise all leave
\* data as it was before the call.
C27_ScanLeavesDeviceState ==
    [][(usb'.calls = usb.calls + 1 /\ op' \in ScanOperations) => data' = data]_vars

\* a scan read after two status reads has been scaled by the factory factors
\* of the DeviceState, which still holds them
C27_Witness ==
    /\ tlccs = "open"
    /\ op = "get_scan_data_factory"
    /\ err = "none"
    /\ ret # <<>>
    /\ data.factory_amplitude_cal.amplitude_cor[0] = FACTOR_ONE
    /\ Len(transfers) = 4

\* C28 as claimed: data.int_time is the time of the most recent successful
\* set_integration_time: the default 0.01 s after initialize, and t after
\* TLCCS.set_integration_time(t) has returned.
C28_IntTimeTracksLastSet ==
    /\ (op = "__init__" /\ err = "none") => data.int_time = TLCCS_DEF_INT_TIME
    /\ (tlccs = "open" /\ op = "set_integration_time" /\ err = "none") =>
           data.int_time = args[1].t

\* the operations that touch the handle or the DeviceState
DeviceOperations == Operations \ {"__enter__"}

\* C30 as claimed: once close() has completed, every later operation on the
\* object sends no transfer and fails.
C30_EveryLaterOperationFails ==
    [][tlccs = "closed" => (transfers' = transfers /\ err' # "none")]_vars

\* C30: once close() has completed, directly or through __exit__, the reset
\* transfer it sent is the last transfer, the handle and the DeviceState are
\* discarded, and every later operation on the object, a second close() and
\* __exit__ among them, sends no transfer; each of them fails, except
\* __enter__, which returns the object.
C30_ClosedSendsNothing ==
    /\ [](tlccs = "closed" =>
            /\ usb.dev = "None"
            /\ data = NoData
            /\ transfers # <<>>
            /\ transfers[Len(transfers)] = ResetTransfer)
    /\ [][(tlccs = "open" /\ tlccs' = "closed") =>
            transfers' = Append(transfers, ResetTransfer)]_vars
    /\ [][tlccs = "closed" =>
            /\ transfers' = transfers
            /\ usb'.dev = "None" /\ data' = NoData
            /\ (op' \in DeviceOperations => err' # "none")]_vars

\* a second close() on the closed object has raised
C30_Witness ==
    /\ tlccs = "closed"
    /\ op \in {"close", "__exit__"}
    /\ err = "AttributeError"
    /\ usb.calls = 2

---------------------------------------------------------------------------
(* Specification of the composed class: compose_methods_from_tlccs walks
   the functions of TLCCS and adds a forwarder to the class for each name
   the class does not have; then the added methods are called.  All the
   forwarders are the same lambda over the loop variable name, which they
   read when they are called.  usb.cls is the attributes of the class,
   usb.name the loop variable, usb.i the functions walked so far.          *)

\* inspect.getmembers(TLCCS, predicate=inspect.isfunction): sorted by name
getmembers ==
    <<"__enter__", "__exit__", "__init__", "close", "get_integration_time",
      "get_scan_data_corrected_noise", "get_scan_data_corrected_range",
      "get_scan_data_factory", "get_wavelength", "reset", "set_integration_time",
      "start_continuous_scan", "start_single_scan">>

\* what the body of class Spectrometer defines
Spectrometer ==
    {"tlccs", "h5_dict", "wavelengths", "__init__", "hdf5_describe", "scan_specturm"}

\* the positional arguments a caller passes to method n
PyArgs(n, in) ==
    CASE n = "set_integration_time" -> <<in.t>>
      [] n = "get_wavelength" -> <<in.factory_or_user>>
      [] n = "get_scan_data_corrected_range" -> <<in.min_wl, in.max_wl>>
      [] n = "get_scan_data_corrected_noise" -> <<in.center_wl, in.tenths_dB>>
      [] n = "__exit__" -> <<"None", "None", "None">>
      [] OTHER -> <<>>

\* the parameters of TLCCS method m besides self: <<required, accepted>>
Parameters(m) ==
    CASE m = "set_integration_time" -> <<1, 1>>
      [] m = "get_wavelength" -> <<0, 1>>
      [] m \in {"get_scan_data_corrected_range", "get_scan_data_corrected_noise"} -> <<0, 2>>
      [] m = "__exit__" -> <<3, 3>>
      [] OTHER -> <<0, 0>>

\* lambda self, *args, **kwargs: getattr(self.tlccs, name)(*args, **kwargs),
\* with name as it is when the lambda runs: [err, ret, xfers, dev, data]
forward(name, pyargs, dev, d, in) ==
    IF Len(pyargs) < Parameters(name)[1] \/ Len(pyargs) > Parameters(name)[2]
    THEN [err |-> "TypeError", ret |-> <<>>, xfers |-> <<>>, dev |-> dev, data |-> d]
    ELSE TLCCS_call(name, dev, d, in)

InitCompose ==
    /\ \E uf \in {[i \in Pixels |-> FACTOR_ONE], [i \in Pixels |-> (1 + (i % 2)) * FACTOR_ONE]} :
           eeprom = [NoEeprom EXCEPT !.acor_user = Region(uf, REGION_CRC)]
    /\ data = NoData
    /\ transfers = <<>>
    /\ op = "none"
    /\ args = <<>>
    /\ err = "none"
    /\ ret = <<>>
    /\ fw = NoFw
    /\ tlccs = "none"
    /\ usb = [bus |-> <<>>, pc |-> "compose", dev |-> "None", calls |-> 0,
              cls |-> Spectrometer, added |-> {}, name |-> "None", i |-> 0]

\* one turn of the loop of compose_methods_from_tlccs
ComposeStep ==
    /\ usb.pc = "compose"
    /\ usb.i < Len(getmembers)
    /\ LET name == getmembers[usb.i + 1]
       IN  usb' = [usb EXCEPT !.i = @ + 1,
                              !.name = name,
                              !.cls = IF name \in @ THEN @ ELSE @ \cup {name},
                              !.added = IF name \in usb.cls THEN @ ELSE @ \cup {name}]
    /\ UNCHANGED <<eeprom, data, transfers, op, args, err, ret, fw, tlccs>>

\* return cls
ComposeReturns ==
    /\ usb.pc = "compose"
    /\ usb.i = Len(getmembers)
    /\ usb' = [usb EXCEPT !.pc = "class"]
    /\ UNCHANGED <<eeprom, data, transfers, op, args, err, ret, fw, tlccs>>

\* a method that the decorator added is called on a Spectrometer whose tlccs
\* is the TLCCS object; op is the TLCCS method that runs
SpectrometerCall ==
    /\ usb.pc = "class"
    /\ tlccs \in {"open", "closed"}
    /\ usb.calls < MaxCalls
    /\ \E n \in usb.added :
       \E in \in Inputs(n) :
       \E r \in {forward(usb.name, PyArgs(n, in), usb.dev, data, in)} :
        /\ op' = usb.name
        /\ args' = <<n, in>>
        /\ err' = r.err
        /\ ret' = r.ret
        /\ data' = r.data
        /\ transfers' = transfers \o r.xfers
        /\ usb' = [usb EXCEPT !.dev = r.dev, !.calls = @ + 1]
        /\ tlccs' = IF usb.name \in {"close", "__exit__"} /\ r.err = "none"
                    THEN "closed" ELSE tlccs
        /\ UNCHANGED <<eeprom, fw>>

NextCompose == ComposeStep \/ ComposeReturns \/ TLCCS_init \/ SpectrometerCall

SpecCompose == InitCompose /\ [][NextCompose]_vars

\* C29 as claimed: every method that compose_methods_from_tlccs adds to
\* Spectrometer forwards to the TLCCS method of the same name and to no
\* other: the TLCCS method that runs when the added method n is called is n.
C29_ForwardsToSameName ==
    (usb.pc = "class" /\ usb.calls > 0) => op = args[1]

============================================================================
